---------------------------- MODULE Spec2Model ----------------------------
(***************************************************************************)
(* A model of the calendar MCP server of src/src/index.ts: the tool-call   *)
(* dispatcher (the CallToolRequestSchema handler, lines 244-595) and the   *)
(* date/time resolver parseDateTime (lines 619-733).                       *)
(*                                                                         *)
(* Text is modelled as TLA+ strings, read character by character.  A Date  *)
(* is a record [kind, day, ms]: kind "date" is a valid time value of `day` *)
(* days since 1970-01-01 and `ms` milliseconds into that day, in UTC;      *)
(* kind "invalid" is an Invalid Date (time value NaN); kind "undefined"    *)
(* stands for an argument that was not passed.  The process runs in a      *)
(* zone with a fixed offset from UTC (no daylight-saving transitions), and *)
(* all instants stay far inside the range a Date can hold.                 *)
(***************************************************************************)
EXTENDS Integers, Sequences, FiniteSets, TLC

(***************************************************************************)
(* Characters and strings                                                  *)
(***************************************************************************)
Ch(s, i) == IF i >= 1 /\ i <= Len(s) THEN SubSeq(s, i, i) ELSE ""

DigitChars == "0123456789"
UpperChars == "ABCDEFGHIJKLMNOPQRSTUVWXYZ"
LowerChars == "abcdefghijklmnopqrstuvwxyz"

\* \d of a regular expression
IsDigit(c) == \E i \in 1..10 : Ch(DigitChars, i) = c

DigitVal(c) == (CHOOSE i \in 1..10 : Ch(DigitChars, i) = c) - 1

DigitChar(n) == Ch(DigitChars, n + 1)

\* \s of a regular expression, and the characters String.prototype.trim removes
IsSpace(c) == c \in {" ", "\t", "\n", "\r"}

LowerChar(c) ==
    IF \E i \in 1..26 : Ch(UpperChars, i) = c
    THEN Ch(LowerChars, CHOOSE i \in 1..26 : Ch(UpperChars, i) = c)
    ELSE c

RECURSIVE toLowerCase(_)
toLowerCase(s) ==
    IF s = "" THEN "" ELSE LowerChar(Ch(s, 1)) \o toLowerCase(Tail(s))

RECURSIVE trimStart(_)
trimStart(s) ==
    IF s # "" /\ IsSpace(Ch(s, 1)) THEN trimStart(Tail(s)) ELSE s

RECURSIVE trimEnd(_)
trimEnd(s) ==
    IF s # "" /\ IsSpace(Ch(s, Len(s)))
    THEN trimEnd(SubSeq(s, 1, Len(s) - 1))
    ELSE s

trim(s) == trimEnd(trimStart(s))

\* the literal `lit` stands in s at position i
LitAt(s, i, lit) ==
    /\ i >= 1
    /\ i + Len(lit) - 1 <= Len(s)
    /\ SubSeq(s, i, i + Len(lit) - 1) = lit

startsWith(s, lit) == LitAt(s, 1, lit)

\* String.prototype.includes
includes(s, q) == \E i \in 1..(Len(s) + 1) : LitAt(s, i, q)

\* the position after the longest run of digits (\d*) starting at i
RECURSIVE SkipDigits(_, _)
SkipDigits(s, i) ==
    IF i <= Len(s) /\ IsDigit(Ch(s, i)) THEN SkipDigits(s, i + 1) ELSE i

\* the position after the longest run of white space (\s*) starting at i
RECURSIVE SkipSpaces(_, _)
SkipSpaces(s, i) ==
    IF i <= Len(s) /\ IsSpace(Ch(s, i)) THEN SkipSpaces(s, i + 1) ELSE i

AllDigits(s) == \A i \in 1..Len(s) : IsDigit(Ch(s, i))

\* parseInt(s, 10) of a string of digits
RECURSIVE parseInt(_)
parseInt(s) ==
    IF s = "" THEN 0
    ELSE 10 * parseInt(SubSeq(s, 1, Len(s) - 1)) + DigitVal(Ch(s, Len(s)))

\* a number written with at least `width` digits (String.prototype.padStart)
RECURSIVE Pad(_, _)
Pad(n, width) ==
    IF n < 10 /\ width <= 1 THEN DigitChar(n)
    ELSE Pad(n \div 10, width - 1) \o DigitChar(n % 10)

\* String(n) of an integer
NumText(n) == IF n < 0 THEN "-" \o Pad(0 - n, 1) ELSE Pad(n, 1)

(***************************************************************************)
(* Dates: the time value of a Date and its local-time fields               *)
(***************************************************************************)
MsPerSecond == 10 * 100
MsPerMinute == 60 * MsPerSecond
MsPerHour == 60 * MsPerMinute
MsPerDay == 24 * MsPerHour

InvalidDate == [kind |-> "invalid", day |-> 0, ms |-> 0]
Undefined == [kind |-> "undefined", day |-> 0, ms |-> 0]

IsValid(t) == t.kind = "date"

\* MakeDate: the time value `ms` milliseconds after the start of day `day`
MakeDate(day, ms) ==
    [kind |-> "date", day |-> day + (ms \div MsPerDay), ms |-> ms % MsPerDay]

\* MakeDay: the day number of the civil date year-month-1 plus (date - 1) days
DaysFromCivil(year, month, date) ==
    LET y == IF month <= 2 THEN year - 1 ELSE year
        era == y \div 400
        yoe == y - era * 400
        mp == IF month > 2 THEN month - 3 ELSE month + 9
        doy == (153 * mp + 2) \div 5
        doe == yoe * 365 + (yoe \div 4) - (yoe \div 100) + doy
    IN  era * 146097 + doe - 719468 + (date - 1)

\* the civil date of day `doy` (counted from 0 on March 1) of the year that
\* begins in March of year y0, when that day falls in month mp after March
CivilOfMonth(y0, mp, doy) ==
    [year |-> IF mp < 10 THEN y0 ELSE y0 + 1,
     month |-> IF mp < 10 THEN mp + 3 ELSE mp - 9,
     date |-> doy - ((153 * mp + 2) \div 5) + 1]

CivilOfYear(y0, doy) == CivilOfMonth(y0, (5 * doy + 2) \div 153, doy)

\* the year of a 400-year era that its day doe falls in
YearOfEra(doe) ==
    (doe - (doe \div 1460) + (doe \div 36524) - (doe \div 146096)) \div 365

CivilOfYearOfEra(era, doe, yoe) ==
    CivilOfYear(yoe + era * 400, doe - (365 * yoe + (yoe \div 4) - (yoe \div 100)))

\* YearFromTime, MonthFromTime, DateFromTime of a day number
CivilFromDays(day) ==
    CivilOfYearOfEra((day + 719468) \div 146097, (day + 719468) % 146097,
                     YearOfEra((day + 719468) % 146097))

DaysInMonth(year, month) ==
    IF month = 12 THEN 31
    ELSE DaysFromCivil(year, month + 1, 1) - DaysFromCivil(year, month, 1)

\* WeekDay: 0 is Sunday; 1970-01-01 was a Thursday
WeekDay(day) == (day + 4) % 7

\* local time = UTC + off minutes
LocalDay(t, off) == t.day + ((t.ms + off * MsPerMinute) \div MsPerDay)
LocalMs(t, off) == (t.ms + off * MsPerMinute) % MsPerDay

\* the Date whose local date is day `lday` and whose local time of day is `lms`
FromLocal(lday, lms, off) == MakeDate(lday, lms - off * MsPerMinute)

getDay(t, off) == WeekDay(LocalDay(t, off))
getHours(t, off) == LocalMs(t, off) \div MsPerHour

\* d.setDate(d.getDate() + n)
addDays(t, n, off) ==
    IF IsValid(t) THEN FromLocal(LocalDay(t, off) + n, LocalMs(t, off), off)
    ELSE InvalidDate

\* d.setHours(h, m, 0, 0)
setHours4(t, h, m, off) ==
    IF IsValid(t)
    THEN FromLocal(LocalDay(t, off), h * MsPerHour + m * MsPerMinute, off)
    ELSE InvalidDate

\* a variant of addHours that lands on the full hour: the property
\* C14_HoursLater must tell it apart
addHours_onTheHour(t, n, off) ==
    IF IsValid(t)
    THEN FromLocal(LocalDay(t, off) + (n \div 24),
                   (getHours(t, off) + (n % 24)) * MsPerHour, off)
    ELSE InvalidDate

\* d.setHours(d.getHours() + n): minutes, seconds and milliseconds are kept
addHours(t, n, off) ==
    IF IsValid(t)
    THEN FromLocal(LocalDay(t, off) + (n \div 24),
                   LocalMs(t, off) + (n % 24) * MsPerHour, off)
    ELSE InvalidDate

\* new Date(d)
copyDate(t) == IF IsValid(t) THEN t ELSE InvalidDate

\* Date.prototype.toISOString of a valid Date (an invalid one throws RangeError)
toISOString(t) ==
    LET c == CivilFromDays(t.day)
    IN  Pad(c.year, 4) \o "-" \o Pad(c.month, 2) \o "-" \o Pad(c.date, 2) \o "T"
        \o Pad(t.ms \div MsPerHour, 2) \o ":"
        \o Pad((t.ms % MsPerHour) \div MsPerMinute, 2) \o ":"
        \o Pad((t.ms % MsPerMinute) \div MsPerSecond, 2) \o "."
        \o Pad(t.ms % MsPerSecond, 3) \o "Z"


(***************************************************************************)
(* new Date(string): the date-time string format of ECMAScript,            *)
(* YYYY-MM-DD[THH:MM[:SS[.mmm]]][Z|+HH:MM|-HH:MM], and what the engine     *)
(* makes of any other text                                                 *)
(***************************************************************************)
\* \d{4}-\d{2}-\d{2} at position i
DateShapeAt(s, i) ==
    /\ i + 9 <= Len(s)
    /\ AllDigits(SubSeq(s, i, i + 3)) /\ Ch(s, i + 4) = "-"
    /\ AllDigits(SubSeq(s, i + 5, i + 6)) /\ Ch(s, i + 7) = "-"
    /\ AllDigits(SubSeq(s, i + 8, i + 9))

\* \d{2}:\d{2} at position i
HourMinuteShapeAt(s, i) ==
    /\ i + 4 <= Len(s)
    /\ AllDigits(SubSeq(s, i, i + 1)) /\ Ch(s, i + 2) = ":"
    /\ AllDigits(SubSeq(s, i + 3, i + 4))

\* the zone suffix of a date-time string: "" is local time
IsZoneSuffix(z) ==
    \/ z = ""
    \/ z = "Z"
    \/ /\ Len(z) = 6 /\ Ch(z, 1) \in {"+", "-"} /\ HourMinuteShapeAt(z, 2)

\* minutes east of UTC that a zone suffix names
ZoneMinutes(z, off) ==
    IF z = "" THEN off
    ELSE IF z = "Z" THEN 0
    ELSE (IF Ch(z, 1) = "-" THEN 0 - 1 ELSE 1)
         * (parseInt(SubSeq(z, 2, 3)) * 60 + parseInt(SubSeq(z, 5, 6)))

\* where the seconds, milliseconds and zone suffix of a date-time string stand
HasSeconds(s) == Len(s) >= 19 /\ Ch(s, 17) = ":" /\ AllDigits(SubSeq(s, 18, 19))
HasMillis(s) ==
    HasSeconds(s) /\ Len(s) >= 23 /\ Ch(s, 20) = "." /\ AllDigits(SubSeq(s, 21, 23))
ZoneSuffix(s) ==
    SubSeq(s, IF HasMillis(s) THEN 24 ELSE IF HasSeconds(s) THEN 20 ELSE 17, Len(s))

\* the string is an instance of the date-time string format, element ranges aside
DateTimeShape(s) ==
    /\ DateShapeAt(s, 1)
    /\ Len(s) > 10 =>
          /\ Ch(s, 11) = "T"
          /\ HourMinuteShapeAt(s, 12)
          /\ IsZoneSuffix(ZoneSuffix(s))

\* the elements of a string that has the shape
DateTimeFields(s) ==
    LET hasTime == Len(s) > 10
    IN  [hasTime |-> hasTime,
         year |-> parseInt(SubSeq(s, 1, 4)),
         month |-> parseInt(SubSeq(s, 6, 7)),
         date |-> parseInt(SubSeq(s, 9, 10)),
         hour |-> IF hasTime THEN parseInt(SubSeq(s, 12, 13)) ELSE 0,
         minute |-> IF hasTime THEN parseInt(SubSeq(s, 15, 16)) ELSE 0,
         second |-> IF HasSeconds(s) THEN parseInt(SubSeq(s, 18, 19)) ELSE 0,
         milli |-> IF HasMillis(s) THEN parseInt(SubSeq(s, 21, 23)) ELSE 0,
         zone |-> IF hasTime THEN ZoneSuffix(s) ELSE ""]

\* what the engine's own parser makes of a string outside the format; which
\* texts it accepts is left to the implementation
LegacyDate == MakeDate(DaysFromCivil(2001, 1, 1), 0)

\* the elements are in the ranges the format gives them
FieldsInRange(f) ==
    /\ f.month >= 1 /\ f.month <= 12
    /\ f.date >= 1 /\ f.date <= 31
    /\ f.minute <= 59 /\ f.second <= 59
    /\ \/ f.hour <= 23
       \/ f.hour = 24 /\ f.minute = 0 /\ f.second = 0 /\ f.milli = 0

\* MakeDate(MakeDay(...), MakeTime(...)) of the elements, as UTC
TimeOfFields(f, zoneOff) ==
    MakeDate(DaysFromCivil(f.year, f.month, f.date),
             f.hour * MsPerHour + f.minute * MsPerMinute
               + f.second * MsPerSecond + f.milli - zoneOff * MsPerMinute)

DateOfFields(f, off) ==
    IF ~FieldsInRange(f) THEN {InvalidDate}
    ELSE IF f.date > DaysInMonth(f.year, f.month)
    THEN {InvalidDate, TimeOfFields(f, IF f.hasTime THEN ZoneMinutes(f.zone, off) ELSE 0)}
    ELSE {TimeOfFields(f, IF f.hasTime THEN ZoneMinutes(f.zone, off) ELSE 0)}

\* The Dates new Date(s) can be.  A date-only form is UTC, a date-time form
\* without a zone suffix is local time.  An element out of range makes the
\* string no instance of the format: month 13, day 45, hour 99 give an
\* Invalid Date.  A day of 29..31 that the month does not have is accepted
\* by some engines (and rolls into the next month) and rejected by others.
\* Text outside the format is left to the engine's own parser.
DateParse(s, off) ==
    IF trim(s) = "" THEN {InvalidDate}
    ELSE IF ~DateTimeShape(s) THEN {InvalidDate, LegacyDate}
    ELSE DateOfFields(DateTimeFields(s), off)

(***************************************************************************)
(* parseDateTime (src/src/index.ts 611-733)                                *)
(***************************************************************************)
\* /^\d{4}-\d{2}-\d{2}(T\d{2}:\d{2}(:\d{2})?)?$/.test(s)
ISO_DATE_REGEX(s) ==
    /\ DateShapeAt(s, 1)
    /\ \/ Len(s) = 10
       \/ Len(s) = 16 /\ Ch(s, 11) = "T" /\ HourMinuteShapeAt(s, 12)
       \/ /\ Len(s) = 19 /\ Ch(s, 11) = "T" /\ HourMinuteShapeAt(s, 12)
          /\ Ch(s, 17) = ":" /\ AllDigits(SubSeq(s, 18, 19))

NoMatch == [found |-> FALSE, g1 |-> "", g2 |-> "", g3 |-> "", g4 |-> ""]

\* the match of a regular expression without ^: the leftmost position where
\* MatchAt finds one
FirstMatch(s, MatchAt(_, _)) ==
    IF \E i \in 1..Len(s) : MatchAt(s, i).found
    THEN MatchAt(s, CHOOSE i \in 1..Len(s) :
                        /\ MatchAt(s, i).found
                        /\ \A j \in 1..(i - 1) : ~MatchAt(s, j).found)
    ELSE NoMatch

\* s?\s*later at position l, after the digits s[i..j-1] and the unit
LaterAfterUnit(s, i, j, l) ==
    IF LitAt(s, SkipSpaces(s, IF Ch(s, l) = "s" THEN l + 1 ELSE l), "later")
    THEN [NoMatch EXCEPT !.found = TRUE, !.g1 = SubSeq(s, i, j - 1)]
    ELSE NoMatch

\* \s*<unit>s?\s*later after the digits s[i..j-1]; the unit stands at k
LaterAfterDigits(s, i, j, k, unit) ==
    IF j > i /\ LitAt(s, k, unit) THEN LaterAfterUnit(s, i, j, k + Len(unit))
    ELSE NoMatch

\* (\d+)\s*<unit>s?\s*later at position i
LaterAt(s, i, unit) ==
    LaterAfterDigits(s, i, SkipDigits(s, i), SkipSpaces(s, SkipDigits(s, i)), unit)

HoursLaterAt(s, i) == LaterAt(s, i, "hour")
DaysLaterAt(s, i) == LaterAt(s, i, "day")

\* lowerString.match(/(\d+)\s*hours?\s*later/i)
hoursLaterMatch(s) == FirstMatch(s, HoursLaterAt)

\* lowerString.match(/(\d+)\s*days?\s*later/i)
daysLaterMatch(s) == FirstMatch(s, DaysLaterAt)

\* ['sunday', 'monday', ...]: lines 670 and 699
WeekDays ==
    <<"sunday", "monday", "tuesday", "wednesday", "thursday", "friday", "saturday">>

\* the alternatives of the regular expression of line 668, in its order
NextDayNames ==
    <<"monday", "tuesday", "wednesday", "thursday", "friday", "saturday", "sunday">>

\* the alternatives of the regular expression of line 686, in its order
DatePartNames == <<"today", "tomorrow">> \o NextDayNames

\* the first alternative of `names` that stands at position i, or ""
AltAt(s, i, names) ==
    IF \E a \in 1..Len(names) : LitAt(s, i, names[a])
    THEN names[CHOOSE a \in 1..Len(names) :
                  /\ LitAt(s, i, names[a])
                  /\ \A b \in 1..(a - 1) : ~LitAt(s, i, names[b])]
    ELSE ""

\* the match whose first group is `name`, if there is a name
NamedMatch(name) ==
    IF name # "" THEN [NoMatch EXCEPT !.found = TRUE, !.g1 = name] ELSE NoMatch

\* next\s*(monday|...|sunday) at position i
NextDayAt(s, i) ==
    IF LitAt(s, i, "next") THEN NamedMatch(AltAt(s, SkipSpaces(s, i + 4), NextDayNames))
    ELSE NoMatch

\* lowerString.match(/next\s*(monday|...|sunday)/i)
dayOfWeekMatch(s) == FirstMatch(s, NextDayAt)

\* \s*(am|pm)? at position f, after the day name, the hour and the minute
MeridiemAt(s, name, hour, minute, f) ==
    [found |-> TRUE, g1 |-> name, g2 |-> hour, g3 |-> minute,
     g4 |-> AltAt(s, SkipSpaces(s, f), <<"am", "pm">>)]

\* (?::(\d+))? at position e, after the hour s[d..e-1]; f is where the
\* digits after position e end
MinuteAt(s, name, d, e, f) ==
    IF Ch(s, e) = ":" /\ f > e + 1
    THEN MeridiemAt(s, name, SubSeq(s, d, e - 1), SubSeq(s, e + 1, f - 1), f)
    ELSE MeridiemAt(s, name, SubSeq(s, d, e - 1), "", e)

\* (\d+) at position d, after the space that begins at c
HourAt(s, name, c, d, e) ==
    IF d > c /\ e > d THEN MinuteAt(s, name, d, e, SkipDigits(s, e + 1)) ELSE NoMatch

\* at\s+ at position b, after the space that begins at a
AtAt(s, name, a, b, d) ==
    IF b > a /\ LitAt(s, b, "at") THEN HourAt(s, name, b + 2, d, SkipDigits(s, d))
    ELSE NoMatch

\* \s+at\s+(\d+)(?::(\d+))?\s*(am|pm)? at position a, after the day name
AfterDayName(s, name, a, b) ==
    IF name # "" THEN AtAt(s, name, a, b, SkipSpaces(s, b + 2)) ELSE NoMatch

DayNameAt(s, i, name) ==
    AfterDayName(s, name, i + Len(name), SkipSpaces(s, i + Len(name)))

\* (today|...|sunday)\s+at\s+(\d+)(?::(\d+))?\s*(am|pm)? at position i
DateTimeAt(s, i) == DayNameAt(s, i, AltAt(s, i, DatePartNames))

\* lowerString.match(/(today|...)\s+at\s+(\d+)(?::(\d+))?\s*(am|pm)?/i)
dateTimeMatch(s) == FirstMatch(s, DateTimeAt)

\* Array.prototype.indexOf on WeekDays, counted from 0
indexOfDay(name) == (CHOOSE i \in 1..7 : WeekDays[i] = name) - 1

\* a variant of daysToAdd that stays on the reference's day when that is the
\* named weekday: the property C12_NextWeekday must tell it apart
daysToAdd_same(dayOfWeek, currentDay) ==
    IF dayOfWeek - currentDay < 0
    THEN dayOfWeek - currentDay + 7
    ELSE dayOfWeek - currentDay

\* lines 677-678 and 706-707: days from the reference to the named weekday
daysToAdd(dayOfWeek, currentDay) ==
    IF dayOfWeek - currentDay <= 0
    THEN dayOfWeek - currentDay + 7
    ELSE dayOfWeek - currentDay

\* a variant of adjustHour without line 719, which leaves 12am at hour 12:
\* the property C13_HourNormalised must tell it apart
adjustHour_noon(hour, isPM) == IF isPM /\ hour < 12 THEN hour + 12 ELSE hour

\* lines 712-719: the hour of the compound rule after the am/pm adjustment
adjustHour(hour, isPM) ==
    LET h1 == IF isPM /\ hour < 12 THEN hour + 12 ELSE hour
    IN  IF ~isPM /\ h1 = 12 THEN 0 ELSE h1

Return(t) == [threw |-> FALSE, t |-> t, message |-> ""]
Throw(msg) == [threw |-> TRUE, t |-> InvalidDate, message |-> msg]

\* lines 676-681 and 705-710: the reference moved on to the named weekday
nextWeekDay(name, reference, off) ==
    IF IsValid(reference)
    THEN addDays(copyDate(reference),
                 daysToAdd(indexOfDay(name), getDay(reference, off)), off)
    ELSE InvalidDate

\* lines 688-722: the compound rule "<day> at <time>"
dateTimeRule(m, reference, off) ==
    setHours4(IF m.g1 = "today" THEN copyDate(reference)
              ELSE IF m.g1 = "tomorrow" THEN addDays(copyDate(reference), 1, off)
              ELSE nextWeekDay(m.g1, reference, off),
              adjustHour(parseInt(m.g2), m.g4 = "pm"),
              IF m.g3 # "" THEN parseInt(m.g3) ELSE 0,
              off)

\* a variant of lastRules whose error carries the trimmed, lower-cased
\* string: the property C9_UnparsableFails must tell it apart
lastRules_lower(dateTimeString, dayOfWeek, dateTime, reference, parsed, off) ==
    IF dayOfWeek.found
    THEN Return(setHours4(nextWeekDay(dayOfWeek.g1, reference, off), 9, 0, off))
    ELSE IF dateTime.found THEN Return(dateTimeRule(dateTime, reference, off))
    ELSE IF IsValid(parsed) THEN Return(parsed)
    ELSE Throw("Unable to parse date/time: " \o trim(toLowerCase(dateTimeString)))

\* a variant of lastRules that tries the compound rule before "next
\* <weekday>": the property C18_FirstRuleWins must tell it apart
lastRules_compoundFirst(dateTimeString, dayOfWeek, dateTime, reference, parsed, off) ==
    IF dateTime.found THEN Return(dateTimeRule(dateTime, reference, off))
    ELSE IF dayOfWeek.found
    THEN Return(setHours4(nextWeekDay(dayOfWeek.g1, reference, off), 9, 0, off))
    ELSE IF IsValid(parsed) THEN Return(parsed)
    ELSE Throw("Unable to parse date/time: " \o dateTimeString)

\* lines 668-729: the rules after "next week"
lastRules(dateTimeString, dayOfWeek, dateTime, reference, parsed, off) ==
    IF dayOfWeek.found
    THEN Return(setHours4(nextWeekDay(dayOfWeek.g1, reference, off), 9, 0, off))
    ELSE IF dateTime.found THEN Return(dateTimeRule(dateTime, reference, off))
    ELSE IF IsValid(parsed) THEN Return(parsed)
    ELSE Throw("Unable to parse date/time: " \o dateTimeString)

\* lines 642-665: the rules from "N hours later" to "next week"
laterRules(dateTimeString, lowerString, hoursLater, daysLater, reference, parsed, off) ==
    IF hoursLater.found
    THEN Return(addHours(copyDate(reference), parseInt(hoursLater.g1), off))
    ELSE IF daysLater.found
    THEN Return(addDays(copyDate(reference), parseInt(daysLater.g1), off))
    ELSE IF lowerString = "next week"
    THEN Return(setHours4(addDays(copyDate(reference), 7, off), 9, 0, off))
    ELSE lastRules(dateTimeString, dayOfWeekMatch(lowerString),
                   dateTimeMatch(lowerString), reference, parsed, off)

\* a variant of relativeRules without line 637, which leaves "tomorrow" the
\* time of day of the reference: the property C15_Tomorrow must tell it apart
relativeRules_keepTime(dateTimeString, lowerString, reference, now, parsed, off) ==
    IF lowerString = "now" \/ lowerString = "today" THEN Return(now)
    ELSE IF lowerString = "tomorrow"
    THEN Return(addDays(copyDate(reference), 1, off))
    ELSE laterRules(dateTimeString, lowerString, hoursLaterMatch(lowerString),
                    daysLaterMatch(lowerString), reference, parsed, off)

\* a variant of relativeRules that gives "now" and "today" the reference:
\* the property C17_NowIsTheClock must tell it apart
relativeRules_anchored(dateTimeString, lowerString, reference, now, parsed, off) ==
    IF lowerString = "now" \/ lowerString = "today" THEN Return(reference)
    ELSE IF lowerString = "tomorrow"
    THEN Return(setHours4(addDays(copyDate(reference), 1, off), 9, 0, off))
    ELSE laterRules(dateTimeString, lowerString, hoursLaterMatch(lowerString),
                    daysLaterMatch(lowerString), reference, parsed, off)

\* lines 626-665: the rules on the lower-cased, trimmed string
relativeRules(dateTimeString, lowerString, reference, now, parsed, off) ==
    IF lowerString = "now" \/ lowerString = "today" THEN Return(now)
    ELSE IF lowerString = "tomorrow"
    THEN Return(setHours4(addDays(copyDate(reference), 1, off), 9, 0, off))
    ELSE laterRules(dateTimeString, lowerString, hoursLaterMatch(lowerString),
                    daysLaterMatch(lowerString), reference, parsed, off)

\* a variant of parseDateTime without the rule of lines 621-623, which leaves
\* a string in ISO format to the fallback: the property C11_ReferenceIgnored
\* must tell it apart
parseDateTime_relative(dateTimeString, referenceDate, now, parsed, off) ==
    relativeRules(dateTimeString, trim(toLowerCase(dateTimeString)),
                  IF referenceDate.kind = "undefined" THEN now ELSE referenceDate,
                  now, parsed, off)

\* parseDateTime(dateTimeString, referenceDate).  `now` is what new Date()
\* reads during the call and `parsed` what new Date(dateTimeString) gives
\* (one of DateParse(dateTimeString, off)); `off` is the zone of the process.
parseDateTime(dateTimeString, referenceDate, now, parsed, off) ==
    IF ISO_DATE_REGEX(dateTimeString) THEN Return(parsed)
    ELSE relativeRules(dateTimeString, trim(toLowerCase(dateTimeString)),
                       IF referenceDate.kind = "undefined" THEN now ELSE referenceDate,
                       now, parsed, off)

\* none of the rules of lines 621-723 matches the string
NoRuleMatches(dateTimeString, lowerString) ==
    /\ ~ISO_DATE_REGEX(dateTimeString)
    /\ lowerString \notin {"now", "today", "tomorrow", "next week"}
    /\ ~hoursLaterMatch(lowerString).found
    /\ ~daysLaterMatch(lowerString).found
    /\ ~dayOfWeekMatch(lowerString).found
    /\ ~dateTimeMatch(lowerString).found

\* parseDateTime evaluates new Date(dateTimeString): on line 622 or 726
EvaluatesDate(dateTimeString) ==
    \/ ISO_DATE_REGEX(dateTimeString)
    \/ NoRuleMatches(dateTimeString, trim(toLowerCase(dateTimeString)))

\* what new Date(dateTimeString) can give parseDateTime; Undefined when the
\* call does not evaluate it
Parsed(dateTimeString, off) ==
    IF EvaluatesDate(dateTimeString) THEN DateParse(dateTimeString, off)
    ELSE {Undefined}

(***************************************************************************)
(* Arguments of a tool call and the operation schemas (lines 125-179)      *)
(***************************************************************************)
\* a JavaScript value: t is its type, "undefined" for a field that is absent
AbsentValue == [t |-> "undefined", s |-> "", n |-> 0, items |-> <<>>]
Str(s) == [t |-> "string", s |-> s, n |-> 0, items |-> <<>>]
Num(n) == [t |-> "number", s |-> "", n |-> n, items |-> <<>>]
\* an array of strings
Arr(items) == [t |-> "array", s |-> "", n |-> 0, items |-> items]
\* reminders: {useDefault, overrides}; items are the methods of the overrides
Obj(items) == [t |-> "object", s |-> "", n |-> 0, items |-> items]

\* a variant of Truthy that holds of every value that is given, the empty
\* string included: the property C20_PatchHoldsNonEmpty must tell it apart
Truthy_given(v) == v.t # "undefined"

\* the truth value JavaScript gives a value in `if (v)` and `v ? a : b`
Truthy(v) ==
    \/ v.t = "string" /\ v.s # ""
    \/ v.t = "number" /\ v.n # 0
    \/ v.t \in {"array", "object"}

ArgNames ==
    {"summary", "description", "location", "start", "end", "attendees",
     "calendarId", "reminders", "eventId", "timeMin", "timeMax", "maxResults",
     "orderBy", "query"}

\* the argument mapping with the fields of `given` and no others
Args(given) ==
    [f \in ArgNames |-> IF f \in DOMAIN given THEN given[f] ELSE AbsentValue]

NoArgs == [f \in ArgNames |-> AbsentValue]

\* z.<type>(), z.<type>().optional(), z.<type>().optional().default(d)
Required(name, type) ==
    [name |-> name, type |-> type, required |-> TRUE, default |-> AbsentValue]
Optional(name, type) ==
    [name |-> name, type |-> type, required |-> FALSE, default |-> AbsentValue]
Default(name, type, d) ==
    [name |-> name, type |-> type, required |-> FALSE, default |-> d]

CalendarIdField == Default("calendarId", "string", Str("primary"))

CreateEventSchema ==
    <<Required("summary", "string"), Optional("description", "string"),
      Optional("location", "string"), Required("start", "string"),
      Required("end", "string"), Optional("attendees", "array"),
      CalendarIdField, Optional("reminders", "object")>>

GetEventSchema == <<Required("eventId", "string"), CalendarIdField>>

UpdateEventSchema ==
    <<Required("eventId", "string"), CalendarIdField,
      Optional("summary", "string"), Optional("description", "string"),
      Optional("location", "string"), Optional("start", "string"),
      Optional("end", "string"), Optional("attendees", "array")>>

DeleteEventSchema == <<Required("eventId", "string"), CalendarIdField>>

ListEventsSchema ==
    <<CalendarIdField, Optional("timeMin", "string"), Optional("timeMax", "string"),
      Default("maxResults", "number", Num(10)),
      Default("orderBy", "orderBy", Str("startTime"))>>

SearchEventsSchema ==
    <<Required("query", "string"), CalendarIdField, Optional("timeMin", "string"),
      Optional("timeMax", "string"), Default("maxResults", "number", Num(10))>>

\* the value has the type the field declares
HasType(v, type) ==
    CASE type = "orderBy" -> v.t = "string" /\ v.s \in {"startTime", "updated"}
      [] type = "object" ->
            v.t = "object" /\ \A i \in 1..Len(v.items) : v.items[i] \in {"email", "popup"}
      [] OTHER -> v.t = type

\* a variant of FieldIssue that accepts a value of any type: the property
\* C10_ValidatesFirst must tell it apart
FieldIssue_lenient(field, args) ==
    IF args[field.name].t = "undefined" /\ field.required
    THEN "{\"code\":\"invalid_type\",\"received\":\"undefined\",\"path\":[\""
         \o field.name \o "\"],\"message\":\"Required\"}"
    ELSE ""

\* the issue zod raises for one field, "" when it raises none
FieldIssue(field, args) ==
    LET v == args[field.name]
    IN  IF v.t = "undefined"
        THEN IF field.required
             THEN "{\"code\":\"invalid_type\",\"received\":\"undefined\",\"path\":[\""
                  \o field.name \o "\"],\"message\":\"Required\"}"
             ELSE ""
        ELSE IF HasType(v, field.type) THEN ""
        ELSE "{\"code\":\"invalid_type\",\"received\":\"" \o v.t \o "\",\"path\":[\""
             \o field.name \o "\"],\"message\":\"Invalid " \o field.type \o "\"}"

\* the issues of the fields i..Len(schema), in the order of the schema
RECURSIVE Issues(_, _, _)
Issues(schema, args, i) ==
    IF i > Len(schema) THEN ""
    ELSE LET here == FieldIssue(schema[i], args)
             rest == Issues(schema, args, i + 1)
         IN  IF here # "" /\ rest # "" THEN here \o "," \o rest ELSE here \o rest

\* Schema.parse(args): the validated arguments, or the ZodError it throws.
\* Fields the schema does not declare are dropped, absent fields take their
\* default.
zodParse(schema, args) ==
    LET issues == Issues(schema, args, 1)
        declared == {schema[i].name : i \in 1..Len(schema)}
        fieldOf(f) == schema[CHOOSE i \in 1..Len(schema) : schema[i].name = f]
    IN  [ok |-> issues = "",
         message |-> "[" \o issues \o "]",
         data |-> [f \in ArgNames |->
                     IF f \notin declared THEN AbsentValue
                     ELSE IF args[f].t = "undefined" THEN fieldOf(f).default
                     ELSE args[f]]]

(***************************************************************************)
(* The remote calendar: events, and what each operation the dispatcher     *)
(* calls does to them                                                      *)
(***************************************************************************)
\* the time of an event: a zoned timestamp (dateTime, timeZone) or an all-day
\* date; "" is a field that is absent
CalTime(dateTime, date, timeZone) ==
    [dateTime |-> dateTime, date |-> date, timeZone |-> timeZone]

NoTime == CalTime("", "", "")

NoEvent ==
    [id |-> "", calendarId |-> "", summary |-> "", description |-> "",
     location |-> "", start |-> NoTime, end |-> NoTime, attendees |-> <<>>]

\* a request body: `fields` are the fields it holds
NoBody ==
    [fields |-> {}, summary |-> "", description |-> "", location |-> "",
     start |-> NoTime, end |-> NoTime, attendees |-> <<>>, reminders |-> <<>>]

\* a request to the remote calendar
NoRequest ==
    [op |-> "none", calendarId |-> "", eventId |-> "", body |-> NoBody,
     timeMin |-> "", timeMax |-> "", maxResults |-> 0, orderBy |-> "",
     singleEvents |-> FALSE]

\* new Date(s) of a timestamp the remote calendar stores (RFC 3339)
StoredDate(s, off) == CHOOSE t \in DateParse(s, off) : TRUE

\* the instant of an event time; an all-day date counts from midnight UTC
InstantOf(time, off) ==
    StoredDate(IF time.dateTime # "" THEN time.dateTime ELSE time.date, off)

Before(t1, t2) == t1.day < t2.day \/ (t1.day = t2.day /\ t1.ms < t2.ms)

IndexOfEvent(store, calendarId, eventId) ==
    IF \E i \in 1..Len(store) :
          store[i].id = eventId /\ store[i].calendarId = calendarId
    THEN CHOOSE i \in 1..Len(store) :
          store[i].id = eventId /\ store[i].calendarId = calendarId
    ELSE 0

\* calendar.events.insert: the event the body describes, under a new id
insertedEvent(req, id) ==
    [id |-> id, calendarId |-> req.calendarId, summary |-> req.body.summary,
     description |-> req.body.description, location |-> req.body.location,
     start |-> req.body.start, end |-> req.body.end,
     attendees |-> req.body.attendees]

\* calendar.events.patch: the fields of the body replace the stored ones
patchedEvent(event, body) ==
    [event EXCEPT
        !.summary = IF "summary" \in body.fields THEN body.summary ELSE @,
        !.description = IF "description" \in body.fields THEN body.description ELSE @,
        !.location = IF "location" \in body.fields THEN body.location ELSE @,
        !.start = IF "start" \in body.fields THEN body.start ELSE @,
        !.end = IF "end" \in body.fields THEN body.end ELSE @,
        !.attendees = IF "attendees" \in body.fields THEN body.attendees ELSE @]

RemoveAt(seq, i) == SubSeq(seq, 1, i - 1) \o SubSeq(seq, i + 1, Len(seq))

\* seq with e put before the first event that starts after it
RECURSIVE InsertByStart(_, _, _)
InsertByStart(seq, e, off) ==
    IF seq = <<>> THEN <<e>>
    ELSE IF Before(InstantOf(e.start, off), InstantOf(Head(seq).start, off))
         THEN <<e>> \o seq
         ELSE <<Head(seq)>> \o InsertByStart(Tail(seq), e, off)

RECURSIVE SortByStart(_, _)
SortByStart(seq, off) ==
    IF seq = <<>> THEN <<>>
    ELSE InsertByStart(SortByStart(SubSeq(seq, 1, Len(seq) - 1), off),
                       seq[Len(seq)], off)

\* Array.prototype.slice(0, n)
slice0(seq, n) ==
    IF n >= 0 THEN SubSeq(seq, 1, IF n < Len(seq) THEN n ELSE Len(seq))
    ELSE SubSeq(seq, 1, IF Len(seq) + n > 0 THEN Len(seq) + n ELSE 0)

\* an event from start to end overlaps the range from tmin to tmax
Overlaps(start, end, tmin, tmax) ==
    /\ IsValid(start) /\ IsValid(end)
    /\ Before(tmin, end)
    /\ Before(start, tmax)

\* orderBy: 'startTime' sorts by start, anything else keeps the stored order
orderedEvents(found, orderBy, off) ==
    IF orderBy = "startTime" THEN SortByStart(found, off) ELSE found

\* calendar.events.list: the events of the calendar that end after timeMin
\* and start before timeMax, by start time when orderBy is startTime, at most
\* maxResults of them
listedEvents(store, req, off) ==
    LET InWindow(e) ==
            /\ e.calendarId = req.calendarId
            /\ Overlaps(InstantOf(e.start, off), InstantOf(e.end, off),
                        StoredDate(req.timeMin, off), StoredDate(req.timeMax, off))
    IN  slice0(orderedEvents(SelectSeq(store, InWindow), req.orderBy, off),
               req.maxResults)

\* calendar.calendarList.list
Calendars ==
    <<[id |-> "primary", summary |-> "Personal", accessRole |-> "owner", primary |-> TRUE],
      [id |-> "work", summary |-> "Work", accessRole |-> "writer", primary |-> FALSE]>>

CalendarIds == {Calendars[i].id : i \in 1..Len(Calendars)}

\* the messages of the errors the remote calendar answers with
RemoteErrors == {"Not Found", "Invalid Value", "Rate Limit Exceeded"}

(***************************************************************************)
(* formatDateTime (lines 740-797) and the texts of the responses, as an    *)
(* en-US locale renders them                                               *)
(***************************************************************************)
WeekDayNames ==
    <<"Sunday", "Monday", "Tuesday", "Wednesday", "Thursday", "Friday", "Saturday">>

MonthNames ==
    <<"January", "February", "March", "April", "May", "June", "July", "August",
      "September", "October", "November", "December">>

\* timeZoneName: 'short' of the zone of the process
ZoneLabel(off) ==
    LET a == IF off < 0 THEN 0 - off ELSE off
    IN  IF off = 0 THEN "UTC"
        ELSE "GMT" \o (IF off < 0 THEN "-" ELSE "+") \o NumText(a \div 60)
             \o (IF a % 60 = 0 THEN "" ELSE ":" \o Pad(a % 60, 2))

\* weekday: 'long', year: 'numeric', month: 'long', day: 'numeric'
LongDate(lday) ==
    LET c == CivilFromDays(lday)
    IN  WeekDayNames[WeekDay(lday) + 1] \o ", " \o MonthNames[c.month] \o " "
        \o NumText(c.date) \o ", " \o NumText(c.year)

\* hour: 'numeric', minute: '2-digit'
ClockTime(lms) ==
    LET h == lms \div MsPerHour
    IN  NumText(IF h % 12 = 0 THEN 12 ELSE h % 12) \o ":"
        \o Pad((lms % MsPerHour) \div MsPerMinute, 2)
        \o (IF h < 12 THEN " AM" ELSE " PM")

\* Date.prototype.toLocaleString with the options of lines 758-766
toLocaleString(t, off) ==
    IF ~IsValid(t) THEN "Invalid Date"
    ELSE LongDate(LocalDay(t, off)) \o " at " \o ClockTime(LocalMs(t, off)) \o " "
         \o ZoneLabel(off)

\* Date.prototype.toLocaleDateString()
toLocaleDateString(t, off) ==
    IF ~IsValid(t) THEN "Invalid Date"
    ELSE LET c == CivilFromDays(LocalDay(t, off))
         IN  NumText(c.month) \o "/" \o NumText(c.date) \o "/" \o NumText(c.year)

\* lines 747-771: the text of the Date of an all-day date or of a timestamp
formattedDate(d, allDay, off) ==
    IF allDay
    THEN (IF IsValid(d) THEN LongDate(LocalDay(d, off)) ELSE "Invalid Date")
         \o " (All day)"
    ELSE toLocaleString(d, off)

\* formatDateTime of the start or end of an event of the remote calendar
formatDateTime(dateTimeObj, off) ==
    IF dateTimeObj = NoTime THEN "Not specified"
    ELSE IF dateTimeObj.date = "" /\ dateTimeObj.dateTime = "" THEN "[object Object]"
    ELSE formattedDate(StoredDate(IF dateTimeObj.date # ""
                                  THEN dateTimeObj.date \o "T00:00:00"
                                  ELSE dateTimeObj.dateTime, off),
                       dateTimeObj.date # "", off)

htmlLink(event) == "https://www.google.com/calendar/event?eid=" \o event.id

OrElse(text, fallback) == IF text = "" THEN fallback ELSE text

\* lines 289 and 394
savedText(headline, event, off) ==
    headline \o "\nEvent ID: " \o event.id \o "\nTitle: " \o event.summary
    \o "\nStart: " \o formatDateTime(event.start, off)
    \o "\nEnd: " \o formatDateTime(event.end, off)
    \o "\nLink: " \o htmlLink(event)

RECURSIVE attendeeLines(_)
attendeeLines(attendees) ==
    IF attendees = <<>> THEN ""
    ELSE "- " \o Head(attendees)
         \o (IF Len(attendees) > 1 THEN "\n" ELSE "") \o attendeeLines(Tail(attendees))

\* lines 303-335
eventDetailsText(event, off) ==
    "Event Details:\nID: " \o event.id \o "\nTitle: " \o event.summary
    \o "\nStart: " \o formatDateTime(event.start, off)
    \o "\nEnd: " \o formatDateTime(event.end, off)
    \o "\nLocation: " \o OrElse(event.location, "Not specified")
    \o "\nDescription: " \o OrElse(event.description, "No description")
    \o "\nCreated: Unknown"
    \o (IF Len(event.attendees) > 0
        THEN "\nAttendees:\n" \o attendeeLines(event.attendees) ELSE "")
    \o "\nLink: " \o htmlLink(event)

\* lines 412
deletedText(va) ==
    "Event with ID " \o va.eventId.s \o " has been successfully deleted from calendar "
    \o va.calendarId.s \o "."

\* lines 460-464 and 535-539: the events from the i-th on, numbered
RECURSIVE eventsDisplay(_, _, _)
eventsDisplay(events, i, off) ==
    IF i > Len(events) THEN ""
    ELSE NumText(i) \o ". " \o events[i].summary \o " (ID: " \o events[i].id
         \o ")\n   When: " \o formatDateTime(events[i].start, off) \o " - "
         \o formatDateTime(events[i].end, off) \o "\n   Where: "
         \o OrElse(events[i].location, "Not specified") \o "\n"
         \o (IF i < Len(events) THEN "\n" ELSE "") \o eventsDisplay(events, i + 1, off)

\* lines 446-473
listText(events, timeMin, timeMax, off) ==
    IF Len(events) = 0
    THEN "No events found in the specified time range ("
         \o toLocaleDateString(timeMin, off) \o " - "
         \o toLocaleDateString(timeMax, off) \o ")."
    ELSE "Found " \o NumText(Len(events)) \o " events between "
         \o toLocaleDateString(timeMin, off) \o " and "
         \o toLocaleDateString(timeMax, off) \o ":\n\n" \o eventsDisplay(events, 1, off)

\* lines 523-548
searchText(events, query, off) ==
    IF Len(events) = 0
    THEN "No events found matching \"" \o query \o "\" in the specified time range."
    ELSE "Found " \o NumText(Len(events)) \o " events matching \"" \o query
         \o "\":\n\n" \o eventsDisplay(events, 1, off)

RECURSIVE calendarsDisplay(_, _)
calendarsDisplay(cals, i) ==
    IF i > Len(cals) THEN ""
    ELSE NumText(i) \o ". " \o cals[i].summary \o " (ID: " \o cals[i].id
         \o ")\n   Access: " \o cals[i].accessRole \o "\n   Primary: "
         \o (IF cals[i].primary THEN "Yes" ELSE "No") \o "\n"
         \o (IF i < Len(cals) THEN "\n" ELSE "") \o calendarsDisplay(cals, i + 1)

\* lines 554-579
calendarsText(cals) ==
    IF Len(cals) = 0 THEN "No calendars found in your Google account."
    ELSE "Found " \o NumText(Len(cals)) \o " calendars:\n\n" \o calendarsDisplay(cals, 1)

\* lines 585-593: the response of the catch block
errorText(message) == "Error: " \o message

(***************************************************************************)
(* The steps of the tool-call handler (lines 244-595) between its awaits   *)
(***************************************************************************)
\* a variant of createEndReference that leaves parseDateTime its default
\* reference, the clock: the property C3_EndAfterStart must tell it apart
createEndReference_now(startDateTime) == Undefined

\* line 254: the reference create_event resolves `end` against
createEndReference(startDateTime) == startDateTime

\* lines 256-283: the event create_event inserts
createEventRequest(va, startDateTime, endDateTime, zoneName) ==
    LET withAttendees == va.attendees.t = "array" /\ Len(va.attendees.items) > 0
    IN  [NoRequest EXCEPT
            !.op = "insert",
            !.calendarId = va.calendarId.s,
            !.body =
                [fields |-> {"summary", "start", "end"}
                              \cup (IF Truthy(va.description) THEN {"description"} ELSE {})
                              \cup (IF Truthy(va.location) THEN {"location"} ELSE {})
                              \cup (IF Truthy(va.reminders) THEN {"reminders"} ELSE {})
                              \cup (IF withAttendees THEN {"attendees"} ELSE {}),
                 summary |-> va.summary.s,
                 description |-> va.description.s,
                 location |-> va.location.s,
                 start |-> CalTime(toISOString(startDateTime), "", zoneName),
                 end |-> CalTime(toISOString(endDateTime), "", zoneName),
                 attendees |-> va.attendees.items,
                 reminders |-> va.reminders.items]]

\* a variant of eventRequest that always asks for the event to be deleted:
\* the property C19_OneMutation must tell it apart
eventRequest_deleting(op, va) ==
    [NoRequest EXCEPT !.op = "delete", !.calendarId = va.calendarId.s,
                      !.eventId = va.eventId.s]

\* lines 298-301, 342-345 and 403-406: a request that names an event
eventRequest(op, va) ==
    [NoRequest EXCEPT !.op = op, !.calendarId = va.calendarId.s,
                      !.eventId = va.eventId.s]

\* a variant of updateEndReference that never looks at the event getEvent
\* returned: the property C7_PatchFromSnapshot must tell it apart
updateEndReference_now(va, startAgain, currentEvent, now, off) ==
    IF Truthy(va.start) THEN startAgain ELSE now

\* lines 367-369: the reference update_event resolves `end` against;
\* startAgain is what the second parseDateTime(validatedArgs.start) returns
updateEndReference(va, startAgain, currentEvent, now, off) ==
    IF Truthy(va.start) THEN startAgain
    ELSE IF currentEvent.start.dateTime # ""
         THEN StoredDate(currentEvent.start.dateTime, off)
         ELSE now

\* a variant of patchZone that always attaches the zone of the process: the
\* property C16_StartZoneCarriesOver must tell it apart
patchZone_default(stored, zoneName) == zoneName

\* line 360 and 374: the zone of a patched time
patchZone(stored, zoneName) == IF stored.timeZone # "" THEN stored.timeZone ELSE zoneName

\* lines 347-388: the patch update_event sends
updateEventRequest(va, startDateTime, endDateTime, currentEvent, zoneName) ==
    LET withAttendees == va.attendees.t = "array" /\ Len(va.attendees.items) > 0
    IN  [NoRequest EXCEPT
            !.op = "patch",
            !.calendarId = va.calendarId.s,
            !.eventId = va.eventId.s,
            !.body =
                [fields |-> (IF Truthy(va.summary) THEN {"summary"} ELSE {})
                              \cup (IF Truthy(va.description) THEN {"description"} ELSE {})
                              \cup (IF Truthy(va.location) THEN {"location"} ELSE {})
                              \cup (IF Truthy(va.start) THEN {"start"} ELSE {})
                              \cup (IF Truthy(va.end) THEN {"end"} ELSE {})
                              \cup (IF withAttendees THEN {"attendees"} ELSE {}),
                 summary |-> va.summary.s,
                 description |-> va.description.s,
                 location |-> va.location.s,
                 start |-> IF Truthy(va.start)
                           THEN CalTime(toISOString(startDateTime), "",
                                        patchZone(currentEvent.start, zoneName))
                           ELSE NoTime,
                 end |-> IF Truthy(va.end)
                         THEN CalTime(toISOString(endDateTime), "",
                                      patchZone(currentEvent.end, zoneName))
                         ELSE NoTime,
                 attendees |-> va.attendees.items,
                 reminders |-> <<>>]]

\* line 434: the days list_events looks ahead when timeMax is absent
ListDefaultDays == 7
\* line 492: the days search_events looks ahead when timeMax is absent
SearchDefaultDays == 30
\* line 501: the candidates search_events fetches
SearchFetchLimit == 100

\* lines 433-434 and 491-492: timeMax = new Date(timeMin); timeMax.setDate(...)
defaultTimeMax(timeMin, days, off) == addDays(copyDate(timeMin), days, off)

\* a variant of timeMaxReference that leaves parseDateTime its default
\* reference, the clock: the property C5_RangeDefaults must tell it apart
timeMaxReference_now(timeMin) == Undefined

\* line 431 and 489: the reference timeMax is resolved against
timeMaxReference(timeMin) == timeMin

\* lines 437-444
listEventsRequest(va, timeMin, timeMax) ==
    [NoRequest EXCEPT
        !.op = "list", !.calendarId = va.calendarId.s,
        !.timeMin = toISOString(timeMin), !.timeMax = toISOString(timeMax),
        !.maxResults = va.maxResults.n, !.orderBy = va.orderBy.s,
        !.singleEvents = TRUE]

\* lines 497-503
searchEventsRequest(va, timeMin, timeMax) ==
    [NoRequest EXCEPT
        !.op = "search", !.calendarId = va.calendarId.s,
        !.timeMin = toISOString(timeMin), !.timeMax = toISOString(timeMax),
        !.maxResults = SearchFetchLimit, !.singleEvents = TRUE]

\* lines 509-518: the event passes the filter of search_events
matchesQuery(event, query) ==
    \/ includes(toLowerCase(event.summary), query)
    \/ includes(toLowerCase(event.description), query)
    \/ includes(toLowerCase(event.location), query)

\* lines 505-521: the events search_events shows, of the candidates `items`
searchResults(items, va) ==
    LET query == toLowerCase(va.query.s)
        Matches(e) == matchesQuery(e, query)
    IN  slice0(SelectSeq(items, Matches), va.maxResults.n)

\* a variant of unknownToolMessage that reports the name in lower case: the
\* property C8_UnknownTool must tell it apart
unknownToolMessage_lower(name) == "Unknown tool: " \o toLowerCase(name)

\* line 583
unknownToolMessage(name) == "Unknown tool: " \o name

ToolNames ==
    {"create_event", "get_event", "update_event", "delete_event", "list_events",
     "search_events", "list_calendars"}

\* parseDateTime reads the clock: for the default reference (line 626) and
\* for "now" and "today" (line 631)
ReadsClock(dateTimeString, referenceDate) ==
    /\ ~ISO_DATE_REGEX(dateTimeString)
    /\ \/ referenceDate.kind = "undefined"
       \/ trim(toLowerCase(dateTimeString)) \in {"now", "today"}

(***************************************************************************)
(* The state of the server and of the remote calendar                      *)
(***************************************************************************)
VARIABLES
    zone,       \* the zone of the process: DEFAULT_TIMEZONE and its UTC offset
    elapsed,    \* milliseconds the clock has advanced when it was last read
    store,      \* the events of the remote calendar, in the order it lists them
    inserted,   \* the number of events the remote calendar has created
    calls,      \* the tool calls: each one's request, position and response
    resolving,  \* the resolver alone: the arguments of a parseDateTime call
    resolved    \* the resolver alone: what the call returned or threw

vars == <<zone, elapsed, store, inserted, calls, resolving, resolved>>

\* the zones a process may run in: fixed offsets, in minutes east of UTC
Zones ==
    {[name |-> "UTC", off |-> 0], [name |-> "America/Bogota", off |-> 0 - 300]}

\* the clock when the server starts: Monday 2025-03-31, one millisecond
\* before midnight UTC
ProcessStart == MakeDate(DaysFromCivil(2025, 3, 31), MsPerDay - 1)

\* the clock advances at most this many milliseconds
MaxElapsed == 1

\* new Date() when the clock has advanced e milliseconds
DateNow(e) == MakeDate(ProcessStart.day, ProcessStart.ms + e)

\* what a read of the clock can give after a read that gave e
Reads(e, reads) == IF reads THEN e..MaxElapsed ELSE {e}

Timed(id, cal, summary, description, location, from, to, timeZone) ==
    [id |-> id, calendarId |-> cal, summary |-> summary, description |-> description,
     location |-> location, start |-> CalTime(from, "", timeZone),
     end |-> CalTime(to, "", timeZone), attendees |-> <<>>]

\* the events the remote calendar holds when the server starts
InitialEvents ==
    <<Timed("ev1", "primary", "Team Sync", "", "Room 4",
            "2025-04-02T10:00:00-05:00", "2025-04-02T11:00:00-05:00", "America/Bogota"),
      [NoEvent EXCEPT !.id = "ev2", !.calendarId = "primary", !.summary = "Offsite",
                      !.description = "Quarterly SYNC day",
                      !.start = CalTime("", "2025-04-03", ""),
                      !.end = CalTime("", "2025-04-04", "")],
      Timed("ev3", "primary", "Lunch", "", "Syncopate Cafe",
            "2025-04-01T12:00:00Z", "2025-04-01T13:00:00Z", ""),
      Timed("ev4", "primary", "Dentist", "", "",
            "2025-04-05T09:00:00Z", "2025-04-05T10:00:00Z", "UTC"),
      [NoEvent EXCEPT !.id = "ev5", !.calendarId = "primary", !.summary = "Draft"]>>

\* the tool calls a client sends
CreateRequests ==
    {[summary |-> Str("Team Sync"), start |-> Str("2025-04-01T14:00:00"),
      end |-> Str("2 hours later")],
     [summary |-> Str("Review"), start |-> Str("tomorrow at 2pm"),
      end |-> Str("26 hours later"), description |-> Str("Plan"),
      location |-> Str("HQ"), attendees |-> Arr(<<"ana@example.org">>),
      calendarId |-> Str("work"), reminders |-> Obj(<<"popup">>)],
     [summary |-> Str("Standup"), start |-> Str("now"), end |-> Str(" Today "),
      description |-> Str(""), attendees |-> Arr(<<>>)],
     [start |-> Str("2025-04-01T14:00:00"), end |-> Str("2 hours later")],
     [summary |-> Num(42), start |-> Str("tomorrow"), end |-> Str("1 hours later")],
     [summary |-> Str("Bad month"), start |-> Str("2025-13-45"),
      end |-> Str("1 hours later")],
     [summary |-> Str("Bad start"), start |-> Str("next blorpday"),
      end |-> Str("1 hours later")],
     [summary |-> Str("Bad end"), start |-> Str("2025-04-01T14:00"),
      end |-> Str(" Next Blorpday ")]}

GetRequests ==
    {[eventId |-> Str("ev1")], [eventId |-> Str("nope")], [calendarId |-> Str("primary")]}

UpdateRequests ==
    {[eventId |-> Str("ev1"), end |-> Str("1 hours later")],
     [eventId |-> Str("ev2"), end |-> Str("1 hours later")],
     [eventId |-> Str("ev5"), end |-> Str("1 hours later")],
     [eventId |-> Str("ev1"), start |-> Str("now"), end |-> Str("1 hours later")],
     [eventId |-> Str("ev3"), start |-> Str("2025-04-05T09:00:00")],
     [eventId |-> Str("ev1"), start |-> Str("2025-04-05T09:00:00"),
      end |-> Str("2 hours later")],
     [eventId |-> Str("ev1"), summary |-> Str(""), start |-> Str(""),
      location |-> Str("Room 9"), attendees |-> Arr(<<>>)],
     [eventId |-> Str("ev4"), summary |-> Str(""), description |-> Str("Bring x-rays")],
     [eventId |-> Str("ev1"), end |-> Str(" Next Blorpday ")],
     [eventId |-> Str("ev1"), start |-> Str("2025-13-45")],
     [summary |-> Str("No id")]}

DeleteRequests == {[eventId |-> Str("ev1")], [eventId |-> Num(4)]}

ListRequests ==
    {[timeMin |-> Str("2025-04-01T00:00:00")],
     [timeMin |-> Str("2025-04-01"), timeMax |-> Str("3 days later"),
      orderBy |-> Str("updated"), maxResults |-> Num(2)],
     [timeMin |-> Str(""), timeMax |-> Str("")],
     [orderBy |-> Str("bogus")],
     [timeMin |-> Str("next blorpday")],
     [timeMin |-> Str("2025-13-45")],
     [maxResults |-> Num(0 - 1)]}

SearchRequests ==
    {[query |-> Str("sync")],
     [query |-> Str("SYNC"), maxResults |-> Num(2)],
     [query |-> Str("sync"), maxResults |-> Num(0 - 1)],
     [query |-> Str("sync"), timeMin |-> Str("2025-04-01"), timeMax |-> Str("tomorrow")],
     [query |-> Str("sync"), timeMax |-> Str(" Next Blorpday ")],
     [query |-> Str("budget"), timeMax |-> Str("")],
     [maxResults |-> Num(5)]}

Named(name, given) == {[name |-> name, args |-> Args(g)] : g \in given}

Requests ==
    Named("create_event", CreateRequests) \cup Named("get_event", GetRequests)
    \cup Named("update_event", UpdateRequests) \cup Named("delete_event", DeleteRequests)
    \cup Named("list_events", ListRequests) \cup Named("search_events", SearchRequests)
    \cup {[name |-> "list_events", args |-> NoArgs],
          [name |-> "list_calendars", args |-> NoArgs],
          [name |-> "frobnicate", args |-> Args([eventId |-> Str("ev1")])],
          [name |-> "Create_Event", args |-> NoArgs]}

\* the tool calls a client sends while an earlier call is still in progress
Overlapping ==
    Named("update_event", {[eventId |-> Str("ev1"), start |-> Str("2025-04-05T09:00:00"),
                            end |-> Str("2 hours later")]})
    \cup Named("delete_event", {[eventId |-> Str("ev1")]})

\* the calls that can be in progress together, in the order they arrive
CallIds == <<"c1", "c2">>

Slots == {CallIds[i] : i \in 1..Len(CallIds)}

IdleCall ==
    [pc |-> "idle", name |-> "", args |-> NoArgs, va |-> NoArgs, req |-> NoRequest,
     ops |-> <<>>, out |-> <<>>, cause |-> "", cur |-> NoEvent, ref |-> Undefined,
     now |-> Undefined, items |-> <<>>, shown |-> <<>>, tried |-> <<>>]

\* the inputs of the resolver when it is checked alone
NoResolution == [expression |-> "", reference |-> Undefined, now |-> Undefined,
                 parsed |-> InvalidDate, off |-> 0]
Unresolved == [done |-> FALSE, threw |-> FALSE, t |-> InvalidDate, message |-> ""]

Init ==
    /\ zone \in Zones
    /\ elapsed = 0
    /\ store = InitialEvents
    /\ inserted = 0
    /\ calls = [c \in Slots |-> IdleCall]
    /\ resolving = NoResolution
    /\ resolved = Unresolved

(***************************************************************************)
(* The handler: one action for each stretch of it that runs without        *)
(* awaiting the remote calendar.  The handler is an async function and     *)
(* nothing in the server queues requests: while one call awaits the remote *)
(* calendar, the handler can start on the next.                            *)
(***************************************************************************)
\* the requests that can arrive as call c: any request when no call is in
\* progress, an overlapping one while the first call awaits the remote calendar
Arriving(c) ==
    IF calls[c].pc # "idle" THEN {}
    ELSE IF c = Head(CallIds) THEN Requests
    ELSE IF calls[Head(CallIds)].pc \notin {"idle", "done"} THEN Overlapping
    ELSE {}

Started(c, r, va) == [calls[c] EXCEPT !.name = r.name, !.args = r.args, !.va = va]

\* lines 585-593: the catch block answers with the message of what was thrown
Throws(c, call, cause, message, e) ==
    /\ calls' = [calls EXCEPT ![c] =
                    [call EXCEPT !.pc = "done", !.cause = cause,
                                 !.out = Append(@, errorText(message))]]
    /\ elapsed' = e

\* the handler calls the remote calendar and awaits the answer
Sends(c, call, pc, req, e) ==
    /\ calls' = [calls EXCEPT ![c] =
                    [call EXCEPT !.pc = pc, !.req = req, !.ops = Append(@, req)]]
    /\ elapsed' = e

\* the handler returns its result
Answers(c, call, text) ==
    calls' = [calls EXCEPT ![c] = [call EXCEPT !.pc = "done", !.out = Append(@, text)]]

\* the errors the remote calendar can answer a request with
Failures(req) ==
    {"Rate Limit Exceeded"}
    \cup (IF req.op \in {"get", "patch", "delete"}
             /\ IndexOfEvent(store, req.calendarId, req.eventId) = 0
          THEN {"Not Found"} ELSE {})
    \cup (IF req.op \in {"insert", "list", "search"} /\ req.calendarId \notin CalendarIds
          THEN {"Not Found"} ELSE {})
    \cup (IF req.op = "list" /\ req.maxResults < 1 THEN {"Invalid Value"} ELSE {})

\* the remote calendar can carry the request out
Succeeds(req) == Failures(req) = {"Rate Limit Exceeded"}

\* the remote calendar answers the pending request of call c with an error
RemoteFails(c) ==
    /\ \E m \in Failures(calls[c].req) : Throws(c, calls[c], "remote", m, elapsed)
    /\ UNCHANGED <<store, inserted>>

\* Schema.parse(args) of lines 250, 296, 339, 401, 419 and 477, then the rest
\* of the handler, Handle, on the validated arguments
Validated(c, r, z, Handle(_, _, _)) ==
    IF ~z.ok THEN Throws(c, Started(c, r, NoArgs), "validation", z.message, elapsed)
    ELSE Handle(c, Started(c, r, z.data), z.data)

\* the call has had parseDateTime resolve an expression, for which
\* new Date(expression) gave `parsed`
Tried(call, expression, parsed) ==
    [call EXCEPT !.tried = Append(@, [expression |-> expression, parsed |-> parsed])]

\* parseDateTime(v.s, referenceDate) if `given`, else `otherwise`; then the
\* rest of the handler, Then, on the result, on what new Date(v.s) gave and on
\* the clock.  The call reads the clock, which has not gone back since e.
Resolving(call, given, v, referenceDate, otherwise, e, Then(_, _, _, _)) ==
    IF given
    THEN \E e1 \in Reads(e, ReadsClock(v.s, referenceDate)),
            parsed \in Parsed(v.s, zone.off) :
            Then(Tried(call, v.s, parsed),
                 parseDateTime(v.s, referenceDate, DateNow(e1), parsed, zone.off),
                 parsed, e1)
    ELSE Then(call, Return(otherwise), Undefined, e)

\* lines 256-283
CreateEventInsert(c, call, va, start, end, e) ==
    IF end.threw THEN Throws(c, call, "resolution", end.message, e)
    ELSE IF ~IsValid(start.t) \/ ~IsValid(end.t)
    THEN Throws(c, call, "range", "Invalid time value", e)
    ELSE Sends(c, [call EXCEPT !.ref = createEndReference(start.t)], "insert",
               createEventRequest(va, start.t, end.t, zone.name), e)

\* line 254
CreateEventEnd(c, call, va, start, e) ==
    IF start.threw THEN Throws(c, call, "resolution", start.message, e)
    ELSE Resolving(call, TRUE, va.end, createEndReference(start.t), Undefined, e,
                   LAMBDA call2, end, parsed, e2 :
                       CreateEventInsert(c, call2, va, start, end, e2))

\* line 253
CreateEventStart(c, call, va) ==
    Resolving(call, TRUE, va.start, Undefined, Undefined, elapsed,
              LAMBDA call1, start, parsed, e : CreateEventEnd(c, call1, va, start, e))

\* lines 249-283
CreateEvent(c) ==
    /\ \E r \in Arriving(c) :
          /\ r.name = "create_event"
          /\ Validated(c, r, zodParse(CreateEventSchema, r.args), CreateEventStart)
    /\ UNCHANGED <<zone, store, inserted, resolving, resolved>>

\* lines 285-292
InsertReturns(c) ==
    /\ calls[c].pc = "insert"
    /\ \/ RemoteFails(c)
       \/ /\ Succeeds(calls[c].req)
          /\ LET event == insertedEvent(calls[c].req, "new" \o NumText(inserted + 1))
             IN  /\ store' = Append(store, event)
                 /\ inserted' = inserted + 1
                 /\ Answers(c, calls[c],
                            savedText("Event created successfully!", event, zone.off))
          /\ elapsed' = elapsed
    /\ UNCHANGED <<zone, resolving, resolved>>

GetEventSend(c, call, va) == Sends(c, call, "get", eventRequest("get", va), elapsed)

\* lines 295-301
GetEvent(c) ==
    /\ \E r \in Arriving(c) :
          /\ r.name = "get_event"
          /\ Validated(c, r, zodParse(GetEventSchema, r.args), GetEventSend)
    /\ UNCHANGED <<zone, store, inserted, resolving, resolved>>

\* lines 303-335
GetReturns(c) ==
    /\ calls[c].pc = "get"
    /\ \/ RemoteFails(c)
       \/ /\ Succeeds(calls[c].req)
          /\ LET event == store[IndexOfEvent(store, calls[c].req.calendarId,
                                             calls[c].req.eventId)]
             IN  Answers(c, [calls[c] EXCEPT !.cur = event],
                         eventDetailsText(event, zone.off))
          /\ UNCHANGED <<store, inserted, elapsed>>
    /\ UNCHANGED <<zone, resolving, resolved>>

UpdateEventSend(c, call, va) == Sends(c, call, "update", eventRequest("get", va), elapsed)

\* lines 338-345
UpdateEvent(c) ==
    /\ \E r \in Arriving(c) :
          /\ r.name = "update_event"
          /\ Validated(c, r, zodParse(UpdateEventSchema, r.args), UpdateEventSend)
    /\ UNCHANGED <<zone, store, inserted, resolving, resolved>>

\* lines 372-388
UpdateEventPatchSend(c, call, va, start, end, ref, e) ==
    IF end.threw THEN Throws(c, call, "resolution", end.message, e)
    ELSE IF ~IsValid(end.t) THEN Throws(c, call, "range", "Invalid time value", e)
    ELSE Sends(c, [call EXCEPT !.ref = ref], "patch",
               updateEventRequest(va, start.t, end.t, call.cur, zone.name), e)

\* line 371
UpdateEventEnd(c, call, va, start, ref, e) ==
    Resolving(call, TRUE, va.end, ref, Undefined, e,
              LAMBDA call2, end, parsed, e3 :
                  UpdateEventPatchSend(c, call2, va, start, end, ref, e3))

\* lines 357-369: start is resolved; if end is given, its reference is found,
\* which resolves start anew or reads the clock
UpdateEventStarted(c, call, va, start, parsed, e) ==
    IF start.threw THEN Throws(c, call, "resolution", start.message, e)
    ELSE IF Truthy(va.start) /\ ~IsValid(start.t)
    THEN Throws(c, call, "range", "Invalid time value", e)
    ELSE IF ~Truthy(va.end)
    THEN Sends(c, call, "patch",
               updateEventRequest(va, start.t, Undefined, call.cur, zone.name), e)
    ELSE \E e2 \in Reads(e, IF Truthy(va.start) THEN ReadsClock(va.start.s, Undefined)
                            ELSE call.cur.start.dateTime = "") :
            UpdateEventEnd(c, call, va, start,
                           updateEndReference(
                               va,
                               IF Truthy(va.start)
                               THEN parseDateTime(va.start.s, Undefined, DateNow(e2),
                                                  parsed, zone.off).t
                               ELSE Undefined,
                               call.cur, DateNow(e2), zone.off),
                           e2)

\* lines 347-361: getEvent has answered with currentEvent
UpdateEventCurrent(c, call, va) ==
    Resolving(call, Truthy(va.start), va.start, Undefined, Undefined, elapsed,
              LAMBDA call1, start, parsed, e :
                  UpdateEventStarted(c, call1, va, start, parsed, e))

\* lines 347-388
UpdateEventPatch(c) ==
    /\ calls[c].pc = "update"
    /\ \/ RemoteFails(c)
       \/ /\ Succeeds(calls[c].req)
          /\ UpdateEventCurrent(
                 c,
                 [calls[c] EXCEPT
                     !.cur = store[IndexOfEvent(store, calls[c].req.calendarId,
                                                calls[c].req.eventId)]],
                 calls[c].va)
          /\ UNCHANGED <<store, inserted>>
    /\ UNCHANGED <<zone, resolving, resolved>>

\* lines 390-397
PatchReturns(c) ==
    /\ calls[c].pc = "patch"
    /\ \/ RemoteFails(c)
       \/ /\ Succeeds(calls[c].req)
          /\ LET i == IndexOfEvent(store, calls[c].req.calendarId, calls[c].req.eventId)
                 event == patchedEvent(store[i], calls[c].req.body)
             IN  /\ store' = [store EXCEPT ![i] = event]
                 /\ Answers(c, calls[c],
                            savedText("Event updated successfully!", event, zone.off))
          /\ UNCHANGED <<inserted, elapsed>>
    /\ UNCHANGED <<zone, resolving, resolved>>

DeleteEventSend(c, call, va) ==
    Sends(c, call, "delete", eventRequest("delete", va), elapsed)

\* lines 400-406
DeleteEvent(c) ==
    /\ \E r \in Arriving(c) :
          /\ r.name = "delete_event"
          /\ Validated(c, r, zodParse(DeleteEventSchema, r.args), DeleteEventSend)
    /\ UNCHANGED <<zone, store, inserted, resolving, resolved>>

\* lines 408-415
DeleteReturns(c) ==
    /\ calls[c].pc = "delete"
    /\ \/ RemoteFails(c)
       \/ /\ Succeeds(calls[c].req)
          /\ store' = RemoveAt(store, IndexOfEvent(store, calls[c].req.calendarId,
                                                   calls[c].req.eventId))
          /\ Answers(c, calls[c], deletedText(calls[c].va))
          /\ UNCHANGED <<inserted, elapsed>>
    /\ UNCHANGED <<zone, resolving, resolved>>

\* lines 437-444 and 497-503: the range is resolved; the request is sent
RangeSend(c, call, va, pc, Request(_, _, _), now, timeMin, timeMax, e) ==
    IF timeMax.threw THEN Throws(c, call, "resolution", timeMax.message, e)
    ELSE IF ~IsValid(timeMin.t) \/ ~IsValid(timeMax.t)
    THEN Throws(c, call, "range", "Invalid time value", e)
    ELSE Sends(c, [call EXCEPT !.now = now, !.ref = timeMaxReference(timeMin.t)], pc,
               Request(va, timeMin.t, timeMax.t), e)

\* lines 428-435 and 486-493
RangeEnd(c, call, va, days, pc, Request(_, _, _), now, timeMin, e) ==
    IF timeMin.threw THEN Throws(c, call, "resolution", timeMin.message, e)
    ELSE Resolving(call, Truthy(va.timeMax), va.timeMax, timeMaxReference(timeMin.t),
                   defaultTimeMax(timeMin.t, days, zone.off), e,
                   LAMBDA call2, timeMax, parsed, e2 :
                       RangeSend(c, call2, va, pc, Request, now, timeMin, timeMax, e2))

\* lines 422-426 and 480-484
RangeStart(c, call, va, days, pc, Request(_, _, _), e0) ==
    Resolving(call, Truthy(va.timeMin), va.timeMin, Undefined, DateNow(e0), e0,
              LAMBDA call1, timeMin, parsed, e :
                  RangeEnd(c, call1, va, days, pc, Request, DateNow(e0), timeMin, e))

\* lines 421-435 and 479-493: the time range of list_events and search_events
ResolveRange(c, call, va, days, pc, Request(_, _, _)) ==
    \E e0 \in Reads(elapsed, ~Truthy(va.timeMin)) :
        RangeStart(c, call, va, days, pc, Request, e0)

ListEventsRange(c, call, va) ==
    ResolveRange(c, call, va, ListDefaultDays, "list", listEventsRequest)

\* lines 418-444
ListEvents(c) ==
    /\ \E r \in Arriving(c) :
          /\ r.name = "list_events"
          /\ Validated(c, r, zodParse(ListEventsSchema, r.args), ListEventsRange)
    /\ UNCHANGED <<zone, store, inserted, resolving, resolved>>

ListAnswer(c, req, events) ==
    Answers(c, [calls[c] EXCEPT !.items = events, !.shown = events],
            listText(events, StoredDate(req.timeMin, zone.off),
                     StoredDate(req.timeMax, zone.off), zone.off))

\* lines 446-473
ListReturns(c) ==
    /\ calls[c].pc = "list"
    /\ \/ RemoteFails(c)
       \/ /\ Succeeds(calls[c].req)
          /\ ListAnswer(c, calls[c].req, listedEvents(store, calls[c].req, zone.off))
          /\ UNCHANGED <<store, inserted, elapsed>>
    /\ UNCHANGED <<zone, resolving, resolved>>

SearchEventsRange(c, call, va) ==
    ResolveRange(c, call, va, SearchDefaultDays, "search", searchEventsRequest)

\* lines 476-503
SearchEvents(c) ==
    /\ \E r \in Arriving(c) :
          /\ r.name = "search_events"
          /\ Validated(c, r, zodParse(SearchEventsSchema, r.args), SearchEventsRange)
    /\ UNCHANGED <<zone, store, inserted, resolving, resolved>>

\* lines 523-548
SearchAnswer(c, items, events) ==
    Answers(c, [calls[c] EXCEPT !.items = items, !.shown = events],
            searchText(events, calls[c].va.query.s, zone.off))

\* lines 505-521
SearchFilter(c, items) == SearchAnswer(c, items, searchResults(items, calls[c].va))

\* lines 505-548
SearchReturns(c) ==
    /\ calls[c].pc = "search"
    /\ \/ RemoteFails(c)
       \/ /\ Succeeds(calls[c].req)
          /\ SearchFilter(c, listedEvents(store, calls[c].req, zone.off))
          /\ UNCHANGED <<store, inserted, elapsed>>
    /\ UNCHANGED <<zone, resolving, resolved>>

\* lines 551-552
ListCalendars(c) ==
    /\ \E r \in Arriving(c) :
          /\ r.name = "list_calendars"
          /\ Sends(c, Started(c, r, NoArgs), "calendars",
                   [NoRequest EXCEPT !.op = "calendars"], elapsed)
    /\ UNCHANGED <<zone, store, inserted, resolving, resolved>>

\* lines 554-579
CalendarsReturn(c) ==
    /\ calls[c].pc = "calendars"
    /\ \/ RemoteFails(c)
       \/ /\ Answers(c, calls[c], calendarsText(Calendars))
          /\ UNCHANGED <<store, inserted, elapsed>>
    /\ UNCHANGED <<zone, resolving, resolved>>

\* lines 582-583: the default case of the switch
UnknownTool(c) ==
    /\ \E r \in Arriving(c) :
          /\ r.name \notin ToolNames
          /\ Throws(c, Started(c, r, NoArgs), "lookup", unknownToolMessage(r.name), elapsed)
    /\ UNCHANGED <<zone, store, inserted, resolving, resolved>>

Next ==
    \E c \in Slots :
        \/ CreateEvent(c) \/ InsertReturns(c)
        \/ GetEvent(c) \/ GetReturns(c)
        \/ UpdateEvent(c) \/ UpdateEventPatch(c) \/ PatchReturns(c)
        \/ DeleteEvent(c) \/ DeleteReturns(c)
        \/ ListEvents(c) \/ ListReturns(c)
        \/ SearchEvents(c) \/ SearchReturns(c)
        \/ ListCalendars(c) \/ CalendarsReturn(c)
        \/ UnknownTool(c)

Spec == Init /\ [][Next]_vars

(***************************************************************************)
(* The resolver alone: parseDateTime applied to one expression             *)
(***************************************************************************)
\* the expressions the resolver is given
Expressions ==
    {"2025-04-01", "2025-04-01T14:00", "2025-04-01T14:00:00", "2025-13-45",
     "2025-04-01T99:00", "2025-02-30", "2025-04-01T24:00:00", "2025-04-01T14:00:00Z",
     "2025-04-01T14:00:00.500-05:00", "2025-04-01t14:00", "now", " Today ",
     "Tomorrow", "2 hours later", "30hour later", "3 days later", "next week",
     "next monday", "Next  Friday", "nextsunday", "next friday at 3pm",
     "tomorrow at 12am", "tomorrow at 12pm", "friday at 9pm", "today at 25",
     "today at 9:75 PM", "monday at 3", "today at 9: am", "next blorpday",
     " Next Blorpday ", "", "  ", "see you 2 hours later ok", "12 hours laterz",
     "next wednesday", "wednesday at 10:30am", "saturday at 11 pm", "today at 12",
     "tomorrow at 9:05", "today at 5 hours later", "1 day later or 2 hours later",
     "0 hours later", "Tomorrow at 9PM", "monday at 25", "  TOMORROW ",
     "2 days later next monday", "tomorrow at 3 days later"}

\* the references it is given: none, Tuesday 2025-04-01 14:00 UTC, Friday
\* 2025-02-28 08:15 UTC at the end of a month, Wednesday 2025-12-31
\* 23:30:15.250 UTC at the end of a year, and the Invalid Date that
\* create_event passes on when its start resolved to one
References ==
    {Undefined, MakeDate(DaysFromCivil(2025, 4, 1), 14 * MsPerHour),
     MakeDate(DaysFromCivil(2025, 2, 28), 8 * MsPerHour + 15 * MsPerMinute),
     MakeDate(DaysFromCivil(2025, 12, 31),
              23 * MsPerHour + 30 * MsPerMinute + 15 * MsPerSecond + 250),
     InvalidDate}

ParseInit ==
    /\ zone \in Zones
    /\ elapsed \in 0..MaxElapsed
    /\ store = InitialEvents
    /\ inserted = 0
    /\ calls = [c \in Slots |-> IdleCall]
    /\ \E expression \in Expressions, reference \in References :
          \E parsed \in Parsed(expression, zone.off) :
             resolving = [expression |-> expression, reference |-> reference,
                          now |-> DateNow(elapsed), parsed |-> parsed,
                          off |-> zone.off]
    /\ resolved = Unresolved

\* what a parseDateTime call has returned or thrown
Resolved(result) ==
    [done |-> TRUE, threw |-> result.threw, t |-> result.t, message |-> result.message]

\* lines 619-733
Resolve ==
    /\ ~resolved.done
    /\ resolved' = Resolved(parseDateTime(resolving.expression, resolving.reference,
                                          resolving.now, resolving.parsed,
                                          resolving.off))
    /\ UNCHANGED <<zone, elapsed, store, inserted, calls, resolving>>

ParseSpec == ParseInit /\ [][Resolve]_vars

(***************************************************************************)
(* Properties                                                              *)
(***************************************************************************)
Began == {c \in Slots : calls[c].pc # "idle"}
Finished == {c \in Slots : calls[c].pc = "done"}
InProgress == {c \in Slots : calls[c].pc \notin {"idle", "done"}}

\* the calls of the operations `names` that have called the remote calendar
Sent(names) == {c \in Slots : calls[c].name \in names /\ calls[c].ops # <<>>}

IsGiven(v) == v.t # "undefined"

HoursAfter(t, n) == MakeDate(t.day, t.ms + n * MsPerHour)
DaysAfter(t, n) == MakeDate(t.day + n, t.ms)

\* a reading of the clock
ClockReadings == {DateNow(e) : e \in 0..MaxElapsed}

\* parseDateTime(expression, reference) can return t
ResolvesTo(expression, reference, t) ==
    \E now \in ClockReadings, parsed \in Parsed(expression, zone.off) :
        parseDateTime(expression, reference, now, parsed, zone.off)
            = [threw |-> FALSE, t |-> t, message |-> ""]

\* the text is an expression no rule matches
Unmatched(expression) == NoRuleMatches(expression, trim(toLowerCase(expression)))

UnableToParse(expression) == "Error: Unable to parse date/time: " \o expression

\* C1: every call that has finished has returned exactly one text payload,
\* and the payload begins with "Error: " if and only if schema validation,
\* time-expression resolution, operation lookup or the remote call failed.
C1_OnePayloadErrorIff ==
    \A c \in Finished :
        /\ Len(calls[c].out) = 1
        /\ startsWith(calls[c].out[1], "Error: ")
              <=> calls[c].cause \in {"validation", "resolution", "lookup", "remote"}

\* C2: for every expression, and every reference that is absent or a valid
\* instant, parseDateTime returns a valid instant or fails; it never returns
\* an invalid one.
C2_ValidOrFails ==
    (resolved.done /\ resolving.reference.kind # "invalid")
        => (resolved.threw \/ IsValid(resolved.t))

C4_EndReference ==
    \A c \in Sent({"update_event"}) :
        (Len(calls[c].ops) = 2 /\ Truthy(calls[c].va.end))
            => IF Truthy(calls[c].va.start)
               THEN calls[c].ref
                       = StoredDate(calls[c].ops[2].body.start.dateTime, zone.off)
               ELSE IF calls[c].cur.start # NoTime
               THEN calls[c].ref = InstantOf(calls[c].cur.start, zone.off)
               ELSE calls[c].ref \in ClockReadings

\* the range list_events and search_events ask the remote calendar for, when
\* Given tells which values of timeMin and timeMax count as present
RangeRule(Given(_)) ==
    \A c \in Sent({"list_events", "search_events"}) :
        LET va == calls[c].va
            timeMin == StoredDate(calls[c].ops[1].timeMin, zone.off)
            timeMax == StoredDate(calls[c].ops[1].timeMax, zone.off)
        IN  /\ IF Given(va.timeMin) THEN ResolvesTo(va.timeMin.s, Undefined, timeMin)
               ELSE timeMin \in ClockReadings
            /\ IF Given(va.timeMax) THEN ResolvesTo(va.timeMax.s, timeMin, timeMax)
               ELSE timeMax = DaysAfter(timeMin,
                                        IF calls[c].name = "list_events" THEN 7 ELSE 30)

\* C5, as amended: in the request of list_events and search_events, timeMin
\* is a reading of the clock when it is absent or the empty string, timeMax
\* is timeMin plus 7 days (list_events) or 30 days (search_events) when it is
\* absent or the empty string, and otherwise timeMax is resolved with the
\* resolved timeMin as its reference.
C5_RangeDefaults == RangeRule(Truthy)

\* C5, witness: list_events, given timeMin "2025-04-01T00:00:00" and no
\* timeMax in a process whose zone is UTC, has asked for the events up to
\* 2025-04-08T00:00:00.
C5_WeekAhead ==
    \E c \in Sent({"list_events"}) :
        /\ calls[c].va.timeMin.s = "2025-04-01T00:00:00"
        /\ ~IsGiven(calls[c].va.timeMax)
        /\ calls[c].ops[1].timeMax = "2025-04-08T00:00:00.000Z"

\* C5, as stated: the same with "absent" read as "not given"; an empty
\* string is then a timeMin or timeMax that is present.
C5_AbsentOnly == RangeRule(IsGiven)

\* C6: search_events fetches at most 100 candidates, and shows the first
\* maxResults of the candidates whose title, description or location contains
\* the query, case-insensitively: never more than maxResults events.
C6_Truncates ==
    \A c \in Finished :
        (calls[c].name = "search_events" /\ calls[c].cause = "")
            => LET n == calls[c].va.maxResults.n
                   Matches(e) ==
                       \E text \in {e.summary, e.description, e.location} :
                           includes(toLowerCase(text), toLowerCase(calls[c].va.query.s))
                   matching == SelectSeq(calls[c].items, Matches)
               IN  /\ calls[c].ops[1].maxResults = 100
                   /\ Len(calls[c].shown) <= n
                   /\ calls[c].shown
                         = SubSeq(matching, 1, IF n < Len(matching) THEN n ELSE Len(matching))

\* the index in the store of the event a call's request names, or 0
Stored(c) == IndexOfEvent(store, calls[c].req.calendarId, calls[c].req.eventId)

\* the calls of update_event whose patch is on its way to the remote calendar
Patching == {c \in Slots : calls[c].name = "update_event" /\ calls[c].pc = "patch"}

\* C7, as stated: at most one call is in progress at a time, and while the
\* patch of update_event is on its way the event it read is stored with the
\* start time it read.
C7_OneAtATime ==
    /\ \A c1, c2 \in InProgress : c1 = c2
    /\ \A c \in Patching :
          Stored(c) # 0 /\ store[Stored(c)].start = calls[c].cur.start

\* C7, as amended: calls overlap, but each call returns one response, at its
\* end, and the patch of update_event comes from the event as getEvent
\* returned it: an end given without a start is resolved against the start
\* time that was read, whatever the stored event has become since.
C7_PatchFromSnapshot ==
    /\ \A c \in Slots : Len(calls[c].out) = (IF calls[c].pc = "done" THEN 1 ELSE 0)
    /\ \A c \in Patching :
          /\ calls[c].cur.id = calls[c].req.eventId
          /\ (/\ Truthy(calls[c].va.end) /\ ~Truthy(calls[c].va.start)
              /\ calls[c].cur.start.dateTime # "")
                => ResolvesTo(calls[c].va.end.s,
                              StoredDate(calls[c].cur.start.dateTime, zone.off),
                              StoredDate(calls[c].req.body.end.dateTime, zone.off))

\* C7, witness: the patch of an update_event that was given only an end is
\* on its way, and another call has changed the start of the event since
\* update_event read it.
C7_Interleaved ==
    \E c \in Patching :
        /\ Truthy(calls[c].va.end) /\ ~Truthy(calls[c].va.start)
        /\ Stored(c) # 0
        /\ store[Stored(c)].start # calls[c].cur.start

\* C8: a call of a name that is none of the seven operations finishes in
\* one step with "Error: Unknown tool: <name>", the name as it was given, and
\* calls no operation of the remote calendar.
C8_UnknownTool ==
    \A c \in Began :
        calls[c].name \notin ToolNames
            => /\ calls[c].pc = "done"
               /\ calls[c].out = <<"Error: Unknown tool: " \o calls[c].name>>
               /\ calls[c].ops = <<>>

\* C8, witness: a call of "Create_Event" has finished.
C8_Unknown == \E c \in Finished : calls[c].name = "Create_Event"

\* the time expressions an operation takes
TimeFieldsOf(name) ==
    CASE name \in {"create_event", "update_event"} -> {"start", "end"}
      [] name \in {"list_events", "search_events"} -> {"timeMin", "timeMax"}
      [] OTHER -> {}

\* the expression a call resolves first, once its arguments are validated
\* and, for update_event, the event is read; "" if it resolves none
FirstExpression(call) ==
    IF call.name = "create_event" THEN call.va.start.s
    ELSE IF call.name = "update_event"
    THEN (IF Truthy(call.va.start) THEN call.va.start.s ELSE call.va.end.s)
    ELSE IF call.name \in {"list_events", "search_events"}
    THEN (IF Truthy(call.va.timeMin) THEN call.va.timeMin.s ELSE call.va.timeMax.s)
    ELSE ""

\* the call has got as far as resolving its time expressions
Resolves(call) ==
    /\ call.name \in {"create_event", "update_event", "list_events", "search_events"}
    /\ call.cause # "validation"
    /\ call.name = "update_event" => call.cur # NoEvent

RequiredOf(name) ==
    CASE name = "create_event" -> {"summary", "start", "end"}
      [] name \in {"get_event", "update_event", "delete_event"} -> {"eventId"}
      [] name = "search_events" -> {"query"}
      [] OTHER -> {}

DeclaredOf(name) ==
    CASE name = "create_event" ->
            {"summary", "description", "location", "start", "end", "attendees",
             "calendarId", "reminders"}
      [] name \in {"get_event", "delete_event"} -> {"eventId", "calendarId"}
      [] name = "update_event" ->
            {"eventId", "calendarId", "summary", "description", "location", "start",
             "end", "attendees"}
      [] name = "list_events" ->
            {"calendarId", "timeMin", "timeMax", "maxResults", "orderBy"}
      [] name = "search_events" ->
            {"query", "calendarId", "timeMin", "timeMax", "maxResults"}
      [] OTHER -> {}

TypeOf(f) ==
    CASE f = "attendees" -> "array"
      [] f = "reminders" -> "object"
      [] f = "maxResults" -> "number"
      [] OTHER -> "string"

\* the arguments lack a required field or hold a wrongly typed one
Malformed(name, args) ==
    \/ \E f \in RequiredOf(name) : ~IsGiven(args[f])
    \/ \E f \in DeclaredOf(name) : IsGiven(args[f]) /\ args[f].t # TypeOf(f)
    \/ /\ "orderBy" \in DeclaredOf(name) /\ args.orderBy.t = "string"
       /\ args.orderBy.s \notin {"startTime", "updated"}

\* a call whose arguments lack a required field or hold a wrongly typed one
\* finishes in one step with an error payload and calls no operation of the
\* remote calendar
RejectsMalformed(c) ==
    Malformed(calls[c].name, calls[c].args)
        => /\ calls[c].pc = "done"
           /\ startsWith(calls[c].out[1], "Error: ")
           /\ calls[c].ops = <<>>

\* in the remote calls of an operation an absent calendarId is "primary" and
\* an absent orderBy is startTime
DefaultsSent(c) ==
    \A i \in 1..Len(calls[c].ops) :
        /\ (calls[c].name # "list_calendars" /\ ~IsGiven(calls[c].args.calendarId))
              => calls[c].ops[i].calendarId = "primary"
        /\ (calls[c].name = "list_events" /\ ~IsGiven(calls[c].args.orderBy))
              => calls[c].ops[i].orderBy = "startTime"

\* the operations `names` ask the remote calendar for n events when
\* maxResults is absent
MaxResultsSent(c, names, n) ==
    \A i \in 1..Len(calls[c].ops) :
        (calls[c].name \in names /\ ~IsGiven(calls[c].args.maxResults))
            => calls[c].ops[i].maxResults = n

\* C10, as stated: malformed arguments are rejected before any remote call,
\* and in the remote calls an absent calendarId is "primary", an absent
\* orderBy is startTime and an absent maxResults is 10, in list_events and in
\* search_events.
C10_DefaultsInRemoteCall ==
    \A c \in Began :
        /\ RejectsMalformed(c)
        /\ DefaultsSent(c)
        /\ MaxResultsSent(c, {"list_events", "search_events"}, 10)

\* C10, as amended: malformed arguments are rejected before any remote call,
\* and in the remote calls an absent calendarId is "primary" and an absent
\* orderBy is startTime; an absent maxResults is 10 in the remote call of
\* list_events, while search_events always asks the remote calendar for 100
\* events and applies the default of 10 to the matches it shows.
C10_ValidatesFirst ==
    \A c \in Began :
        /\ RejectsMalformed(c)
        /\ DefaultsSent(c)
        /\ MaxResultsSent(c, {"list_events"}, 10)
        /\ \A i \in 1..Len(calls[c].ops) :
              calls[c].name = "search_events"
                  => /\ calls[c].ops[i].maxResults = SearchFetchLimit
                     /\ ~IsGiven(calls[c].args.maxResults)
                           => /\ calls[c].va.maxResults.n = 10
                              /\ Len(calls[c].shown) <= 10

\* C10, witness: create_event, given a number as summary, has been rejected.
C10_Rejected ==
    \E c \in Finished :
        /\ calls[c].name = "create_event"
        /\ calls[c].args.summary.t = "number"
        /\ calls[c].cause = "validation"

(***************************************************************************)
(* Properties of the resolver                                              *)
(***************************************************************************)
\* the lower-cased, trimmed expression the rules are tried on (line 627)
LowerExpression == trim(toLowerCase(resolving.expression))

\* the reference of the call: the clock when none is given (line 626)
TheReference ==
    IF resolving.reference.kind = "undefined" THEN resolving.now
    ELSE resolving.reference

\* the call has returned, and had a reference that is a valid instant
ReturnedOnReference == resolved.done /\ ~resolved.threw /\ IsValid(TheReference)

\* C11: an expression in the strict ISO format resolves to what
\* new Date(expression) gives, whatever the reference (absent, valid or
\* invalid) and whatever the clock reads.
C11_ReferenceIgnored ==
    (resolved.done /\ ISO_DATE_REGEX(resolving.expression))
        => /\ resolving.parsed \in DateParse(resolving.expression, resolving.off)
           /\ resolved = Resolved(Return(resolving.parsed))
           /\ \A r \in References, now \in ClockReadings :
                 parseDateTime(resolving.expression, r, now, resolving.parsed,
                               resolving.off) = Return(resolving.parsed)

\* C11, witness: "2025-04-01T14:00:00", resolved in the zone America/Bogota
\* against a reference of 2025-12-31, is 2025-04-01T19:00:00Z.
C11_IsoWithReference ==
    /\ resolved.done /\ zone.name = "America/Bogota"
    /\ resolving.expression = "2025-04-01T14:00:00"
    /\ resolving.reference.day = DaysFromCivil(2025, 12, 31)
    /\ resolved.t = MakeDate(DaysFromCivil(2025, 4, 1), 19 * MsPerHour)

\* the expressions "next <weekday>" that the resolver is given, with the
\* number of the weekday (0 is Sunday)
NextWeekdayExpressions ==
    {<<"next monday", 1>>, <<"Next  Friday", 5>>, <<"nextsunday", 0>>,
     <<"next wednesday", 3>>, <<"next friday at 3pm", 5>>}

\* the expressions "<weekday> at <time>" that the resolver is given, with the
\* number of the weekday and the hour and minute that setHours is given
WeekdayAtExpressions ==
    {<<"friday at 9pm", 5, 21, 0>>, <<"monday at 3", 1, 3, 0>>,
     <<"wednesday at 10:30am", 3, 10, 30>>, <<"saturday at 11 pm", 6, 23, 0>>,
     <<"monday at 25", 1, 25, 0>>}

\* the local date n days after the reference's is an advance of 1..7 days to
\* the weekday w: 7 days, not 0, when the reference falls on w
AdvancesTo(n, w) ==
    /\ n \in 1..7
    /\ WeekDay(LocalDay(TheReference, resolving.off) + n) = w
    /\ WeekDay(LocalDay(TheReference, resolving.off)) = w => n = 7

\* C12: "next <weekday>" resolves to 09:00:00.000 on the named weekday, 1..7
\* days after the reference's date (7 when the reference falls on that
\* weekday); the date that "<weekday> at <time>" sets its time on is found
\* the same way.
C12_NextWeekday ==
    (resolved.done /\ IsValid(TheReference))
        => /\ \A x \in NextWeekdayExpressions :
                 resolving.expression = x[1]
                     => /\ ~resolved.threw
                        /\ AdvancesTo(LocalDay(resolved.t, resolving.off)
                                         - LocalDay(TheReference, resolving.off), x[2])
                        /\ LocalMs(resolved.t, resolving.off) = 9 * MsPerHour
           /\ \A x \in WeekdayAtExpressions :
                 resolving.expression = x[1]
                     => /\ ~resolved.threw
                        /\ \E n \in 1..7 :
                              /\ AdvancesTo(n, x[2])
                              /\ resolved.t
                                    = FromLocal(LocalDay(TheReference, resolving.off) + n,
                                                x[3] * MsPerHour + x[4] * MsPerMinute,
                                                resolving.off)

\* C12, witness: "Next  Friday", resolved in the zone UTC against Friday
\* 2025-02-28 08:15, is 2025-03-07 09:00.
C12_SameWeekday ==
    /\ resolved.done /\ zone.name = "UTC"
    /\ resolving.expression = "Next  Friday"
    /\ resolving.reference.day = DaysFromCivil(2025, 2, 28)
    /\ resolved.t = MakeDate(DaysFromCivil(2025, 3, 7), 9 * MsPerHour)

\* the expressions "<day> at <H>[:MM][am|pm]" that the resolver is given, with
\* H, MM (0 when there is none) and the meridiem ("" when there is none) as
\* the pattern of line 686 reads them
TimeOfDayExpressions ==
    {<<"tomorrow at 12am", 12, 0, "am">>, <<"tomorrow at 12pm", 12, 0, "pm">>,
     <<"friday at 9pm", 9, 0, "pm">>, <<"Tomorrow at 9PM", 9, 0, "pm">>,
     <<"today at 12", 12, 0, "">>, <<"monday at 3", 3, 0, "">>,
     <<"tomorrow at 9:05", 9, 5, "">>, <<"wednesday at 10:30am", 10, 30, "am">>,
     <<"saturday at 11 pm", 11, 0, "pm">>, <<"today at 9:75 PM", 9, 75, "pm">>,
     <<"today at 9: am", 9, 0, "">>, <<"today at 25", 25, 0, "">>,
     <<"monday at 25", 25, 0, "">>}

\* the hour H with the meridiem, normalised
NormalisedHour(hour, meridiem) ==
    IF meridiem = "pm" /\ hour < 12 THEN hour + 12
    ELSE IF meridiem \in {"", "am"} /\ hour = 12 THEN 0
    ELSE hour

\* C13: "<day> at <H>[:MM][am|pm]" resolves to the instant that lies the
\* normalised hour and MM minutes, and no seconds or milliseconds, after the
\* local midnight of a day from the reference's to 7 days after it: H + 12
\* for "pm" and H < 12, 0 for H = 12 without "pm", else H.
C13_HourNormalised ==
    (resolved.done /\ IsValid(TheReference))
        => \A x \in TimeOfDayExpressions :
              resolving.expression = x[1]
                  => /\ ~resolved.threw
                     /\ \E n \in 0..7 :
                           resolved.t
                              = FromLocal(LocalDay(TheReference, resolving.off) + n,
                                          NormalisedHour(x[2], x[4]) * MsPerHour
                                             + x[3] * MsPerMinute,
                                          resolving.off)
                     /\ (NormalisedHour(x[2], x[4]) < 24 /\ x[3] < 60)
                           => LocalMs(resolved.t, resolving.off)
                                 = NormalisedHour(x[2], x[4]) * MsPerHour
                                      + x[3] * MsPerMinute

\* C13, witness: "tomorrow at 12am", resolved in the zone UTC against
\* 2025-04-01 14:00, is 2025-04-02 00:00.
C13_Midnight ==
    /\ resolved.done /\ zone.name = "UTC"
    /\ resolving.reference = MakeDate(DaysFromCivil(2025, 4, 1), 14 * MsPerHour)
    /\ resolving.expression = "tomorrow at 12am"
    /\ resolved.t = MakeDate(DaysFromCivil(2025, 4, 2), 0)

\* the expressions "<N> hours later" that the resolver is given, with N
HoursLaterExpressions ==
    {<<"2 hours later", 2>>, <<"30hour later", 30>>, <<"0 hours later", 0>>,
     <<"see you 2 hours later ok", 2>>, <<"12 hours laterz", 12>>,
     <<"today at 5 hours later", 5>>, <<"1 day later or 2 hours later", 2>>}

\* the hours from the start of day 0 to the start of the local hour of t
LocalHours(t, off) == LocalDay(t, off) * 24 + getHours(t, off)

TomorrowExpressions == {"Tomorrow", "  TOMORROW "}

\* the civil date after the civil date c
NextCivilDate(c) ==
    IF c.date < DaysInMonth(c.year, c.month) THEN [c EXCEPT !.date = c.date + 1]
    ELSE IF c.month < 12 THEN [c EXCEPT !.month = c.month + 1, !.date = 1]
    ELSE [year |-> c.year + 1, month |-> 1, date |-> 1]

\* C15: "tomorrow" resolves to 09:00:00.000 on the calendar date after the
\* reference's, into the next month or year at their ends, whatever the
\* reference's time of day.
C15_Tomorrow ==
    (resolved.done /\ IsValid(TheReference)
     /\ resolving.expression \in TomorrowExpressions)
        => /\ ~resolved.threw
           /\ CivilFromDays(LocalDay(resolved.t, resolving.off))
                 = NextCivilDate(CivilFromDays(LocalDay(TheReference, resolving.off)))
           /\ LocalMs(resolved.t, resolving.off) = 9 * MsPerHour

\* C15, witness: "Tomorrow", resolved in the zone UTC against 2025-12-31
\* 23:30:15.250, is 2026-01-01 09:00.
C15_NewYear ==
    /\ resolved.done /\ zone.name = "UTC"
    /\ resolving.expression = "Tomorrow"
    /\ resolving.reference.day = DaysFromCivil(2025, 12, 31)
    /\ resolved.t = MakeDate(DaysFromCivil(2026, 1, 1), 9 * MsPerHour)

\* the expressions "now" and "today" that the resolver is given
NowExpressions == {"now", " Today "}

\* C17: "now" and "today", in any case and with space around them, resolve
\* to what the clock reads during the call, whatever reference is given.
C17_NowIsTheClock ==
    (resolved.done /\ resolving.expression \in NowExpressions)
        => /\ ~resolved.threw
           /\ resolved.t = resolving.now
           /\ resolved.t \in ClockReadings

\* C17, witness: " Today ", resolved against a reference of 2025-12-31, is
\* the reading of the clock, on 2025-03-31.
C17_TodayWithReference ==
    /\ resolved.done
    /\ resolving.expression = " Today "
    /\ resolving.reference.day = DaysFromCivil(2025, 12, 31)
    /\ resolved.t.day = DaysFromCivil(2025, 3, 31)

\* the rules in the order ISO, now/today, tomorrow, hours later, days later,
\* next week, next weekday, compound, fallback: the numbers of the ones whose
\* pattern the expression matches
MatchingRules(dateTimeString, lowerString) ==
    {9} \cup (IF ISO_DATE_REGEX(dateTimeString) THEN {1} ELSE {})
        \cup (IF lowerString \in {"now", "today"} THEN {2} ELSE {})
        \cup (IF lowerString = "tomorrow" THEN {3} ELSE {})
        \cup (IF hoursLaterMatch(lowerString).found THEN {4} ELSE {})
        \cup (IF daysLaterMatch(lowerString).found THEN {5} ELSE {})
        \cup (IF lowerString = "next week" THEN {6} ELSE {})
        \cup (IF dayOfWeekMatch(lowerString).found THEN {7} ELSE {})
        \cup (IF dateTimeMatch(lowerString).found THEN {8} ELSE {})

\* the first of them
FirstRule(rules) == CHOOSE r \in rules : \A q \in rules : r <= q

\* what rule number r alone makes of the expression
RuleResult(r, dateTimeString, lowerString, reference, now, parsed, off) ==
    CASE r = 1 -> Return(parsed)
      [] r = 2 -> Return(now)
      [] r = 3 -> Return(setHours4(addDays(reference, 1, off), 9, 0, off))
      [] r = 4 -> Return(addHours(reference,
                                  parseInt(hoursLaterMatch(lowerString).g1), off))
      [] r = 5 -> Return(addDays(reference,
                                 parseInt(daysLaterMatch(lowerString).g1), off))
      [] r = 6 -> Return(setHours4(addDays(reference, 7, off), 9, 0, off))
      [] r = 7 -> Return(setHours4(nextWeekDay(dayOfWeekMatch(lowerString).g1,
                                               reference, off), 9, 0, off))
      [] r = 8 -> Return(dateTimeRule(dateTimeMatch(lowerString), reference, off))
      [] r = 9 -> IF IsValid(parsed) THEN Return(parsed)
                  ELSE Throw("Unable to parse date/time: " \o dateTimeString)

\* the expressions the resolver is given that match more than one rule
\* before the fallback
MatchesSeveral(dateTimeString) ==
    Cardinality(MatchingRules(dateTimeString, trim(toLowerCase(dateTimeString)))) > 2

\* C18: an expression is resolved by the first rule it matches, in the order
\* ISO, now/today, tomorrow, hours later, days later, next week, next
\* weekday, compound, fallback, and by that rule alone.
C18_FirstRuleWins ==
    resolved.done
        => resolved
              = Resolved(RuleResult(
                    FirstRule(MatchingRules(resolving.expression, LowerExpression)),
                    resolving.expression, LowerExpression,
                    TheReference,
                    resolving.now, resolving.parsed, resolving.off))

\* C18, witness: "next friday at 3pm", which matches "next <weekday>" and
\* "<weekday> at <time>", resolved in the zone UTC against Tuesday 2025-04-01
\* 14:00, is Friday 2025-04-04 09:00.
C18_NextBeforeCompound ==
    /\ resolved.done /\ zone.name = "UTC"
    /\ resolving.expression = "next friday at 3pm"
    /\ MatchesSeveral(resolving.expression)
    /\ resolving.reference = MakeDate(DaysFromCivil(2025, 4, 1), 14 * MsPerHour)
    /\ resolved.t = MakeDate(DaysFromCivil(2025, 4, 4), 9 * MsPerHour)

\* the local date the compound rule sets its time on: the reference's for
\* "today", the next for "tomorrow", the next occurrence for a weekday
AnchorDay(expression) ==
    IF startsWith(LowerExpression, "today") THEN LocalDay(TheReference, resolving.off)
    ELSE IF startsWith(LowerExpression, "tomorrow")
    THEN LocalDay(TheReference, resolving.off) + 1
    ELSE LocalDay(TheReference, resolving.off)
            + (CHOOSE n \in 1..7 :
                  \E x \in WeekdayAtExpressions :
                      x[1] = expression /\ AdvancesTo(n, x[2]))

\* C21: every expression "<day> at <H>[:MM][am|pm]" that the compound rule
\* accepts resolves to an instant on the anchor date, at the normalised hour
\* and MM minutes of that date.
C21_TimeOnAnchorDate ==
    (resolved.done /\ IsValid(TheReference))
        => \A x \in TimeOfDayExpressions :
              resolving.expression = x[1]
                  => /\ ~resolved.threw
                     /\ LocalDay(resolved.t, resolving.off) = AnchorDay(x[1])
                     /\ LocalMs(resolved.t, resolving.off)
                           = NormalisedHour(x[2], x[4]) * MsPerHour
                                + x[3] * MsPerMinute

(***************************************************************************)
(* Properties of the handler, continued                                    *)
(***************************************************************************)
\* the calls of update_event that have sent their patch
Patched == {c \in Sent({"update_event"}) : Len(calls[c].ops) = 2}

\* C16: when update_event is given a start, the zone of the start in the
\* patch is the zone of the start of the event that getEvent returned, and
\* the zone of the process only when that event's start has no zone.
C16_StartZoneCarriesOver ==
    \A c \in Patched :
        Truthy(calls[c].va.start)
            => /\ "start" \in calls[c].ops[2].body.fields
               /\ calls[c].ops[2].body.start.timeZone
                     = (IF calls[c].cur.start.timeZone # ""
                        THEN calls[c].cur.start.timeZone ELSE zone.name)

\* C16, witness: in a process whose zone is UTC, update_event has patched
\* the start of ev1, which is stored with the zone America/Bogota.
C16_StoredZone ==
    \E c \in Patched :
        /\ zone.name = "UTC" /\ calls[c].pc = "done" /\ calls[c].cause = ""
        /\ calls[c].va.eventId.s = "ev1"
        /\ calls[c].ops[2].body.start.timeZone = "America/Bogota"

\* the remote operations that change the calendar
MutatingOps == {"insert", "patch", "delete"}

\* the requests of call c that ask for one of them
Mutations(c) == SelectSeq(calls[c].ops, LAMBDA req : req.op \in MutatingOps)

\* C19: a call asks the remote calendar for at most one mutating operation,
\* and for none when validation fails, a time expression does not resolve,
\* the operation is unknown or the getEvent of update_event fails; get_event,
\* list_events, search_events and list_calendars ask for none.
C19_OneMutation ==
    \A c \in Began :
        /\ Len(Mutations(c)) <= 1
        /\ calls[c].cause \in {"validation", "resolution", "lookup"}
              => Mutations(c) = <<>>
        /\ calls[c].name \notin ToolNames => calls[c].ops = <<>>
        /\ (calls[c].name = "update_event" /\ calls[c].cause = "remote"
            /\ Len(calls[c].ops) = 1)
              => calls[c].ops[1].op = "get"
        /\ calls[c].name \in {"get_event", "list_events", "search_events",
                              "list_calendars"}
              => Mutations(c) = <<>>
        /\ calls[c].name = "update_event" /\ calls[c].ops # <<>>
              => calls[c].ops[1].op = "get"

\* C19, witness: update_event has read ev1 and failed to resolve the end
\* " Next Blorpday ", and has asked for no patch.
C19_NoPatchAfterFailure ==
    \E c \in Finished :
        /\ calls[c].name = "update_event" /\ calls[c].cause = "resolution"
        /\ Len(calls[c].ops) = 1 /\ calls[c].cur.id = "ev1"
        /\ store = InitialEvents

\* the fields of an event that update_event can patch
PatchFields == {"summary", "description", "location", "start", "end", "attendees"}

\* the value is a string that is not empty or an array that is not empty
NonEmpty(v) ==
    \/ v.t = "string" /\ v.s # ""
    \/ v.t = "array" /\ v.items # <<>>

\* the patch of update_event holds the fields that Supplied holds of, and
\* the remote calendar leaves the other fields of the event as they are
PatchHolds(Supplied(_)) ==
    \A c \in Patched :
        /\ calls[c].ops[2].body.fields
              = {f \in PatchFields : Supplied(calls[c].args[f])}
        /\ (calls[c].pc = "patch" /\ Stored(c) # 0)
              => \A f \in PatchFields \ calls[c].ops[2].body.fields :
                    patchedEvent(store[Stored(c)], calls[c].req.body)[f]
                       = store[Stored(c)][f]

\* C20, as stated: the patch holds a field if and only if the caller gave
\* it, and the fields it does not hold stay as they are stored.
C20_PatchHoldsSupplied == PatchHolds(IsGiven)

\* C20, as amended: the patch holds a field if and only if the caller gave
\* it a value that is not empty (a non-empty string, a non-empty list of
\* attendees), and the fields it does not hold stay as they are stored.
C20_PatchHoldsNonEmpty == PatchHolds(NonEmpty)

\* C20, witness: update_event, given an empty summary and a description, has
\* patched the description of ev4 alone, and its summary is as it was.
C20_DescriptionOnly ==
    \E c \in Patched :
        /\ calls[c].pc = "done" /\ calls[c].cause = ""
        /\ calls[c].args.summary = Str("")
        /\ calls[c].ops[2].body.fields = {"description"}
        /\ \E i \in 1..Len(store) :
              /\ store[i].id = "ev4" /\ store[i].description = "Bring x-rays"
              /\ store[i].summary = "Dentist"

=============================================================================
